---- MODULE Spec2Model ----
(***************************************************************************)
(* A model of the command-line argument parser of libarg (parse.go):       *)
(* Parse, parseArgs, the collector closures of Parse and the accessors of  *)
(* Args.  A token is a sequence of one-character strings, so that the      *)
(* prefix tests, the rune scans and the slicings of the code are computed  *)
(* as the code computes them.  One action models one iteration of the      *)
(* `for _, arg := range args` loop of parseArgs, by the branch it takes.   *)
(* ParseWith, the configured parse, hands parseArgs a collector that       *)
(* resolves every option against the option configurations (OptCfg) and a  *)
(* predicate that answers by the resolved configuration; it has its own    *)
(* specification, SpecWith, over the same loop variables.  The dax source  *)
(* and the dax connection of dax.go, which run the parse in Setup and keep *)
(* its result, have the specification SpecDax.  What a caller can do with  *)
(* the slices the accessors of a returned Args hand out is the             *)
(* specification SpecArgs.                                                 *)
(***************************************************************************)
EXTENDS Integers, Sequences, FiniteSets, TLC

VARIABLES
    args,                 \* os.Args[1:], the tokens handed to parseArgs
    takeParams,           \* the option names for which takeParams(name) is true
    idx,                  \* number of tokens the range loop has consumed
    isNonOpt,             \* parseArgs: isNonOpt
    prevOptTakingParams,  \* parseArgs: prevOptTakingParams ("" is <<>>)
    optParams,            \* Parse: optParams, the map the collector fills
    cmdParams,            \* Parse: cmdParams, the slice the collector fills
    pc,                   \* "scan" while in the loop, "done" once Parse returned
    ret,                  \* what Parse returned: [args |-> Args, err |-> Err]
    optCfgs,              \* ParseWith: optCfgs, the option configurations
    osArgs,               \* os.Args, the path of the program first
    ds,                   \* the DaxSrc: [cmd, optCfgs, options]
    conns,                \* number of DaxConn{ds: ds} CreateDaxConn has returned
    call,                 \* the last call on the DaxSrc, a DaxConn or an Args,
                          \* with what it returned
    held                  \* the slice a caller got from Args.OptParams or
                          \* Args.CmdParams and holds

\* The variables of the dax source and its connections.
daxVars == <<osArgs, ds, conns, call>>

\* The variables of one call of Parse or ParseWith, but what it returned.
parseVarsButRet == <<args, takeParams, idx, isNonOpt, prevOptTakingParams,
                     optParams, cmdParams, pc, optCfgs>>

\* The variables of one call of Parse or ParseWith.
parseVars == <<args, takeParams, idx, isNonOpt, prevOptTakingParams,
               optParams, cmdParams, pc, ret, optCfgs>>

vars == <<args, takeParams, idx, isNonOpt, prevOptTakingParams,
          optParams, cmdParams, pc, ret, optCfgs, osArgs, ds, conns, call, held>>

----------------------------------------------------------------------------
(* Bounds of the model.                                                    *)

\* Longest argument list.
MaxArgs == 3

\* Longest option name or short-option cluster generated after the prefix.
MaxNameLen == 2

----------------------------------------------------------------------------
(* Characters and character classes.                                       *)

\* unicode.RangeTable rangeOfAlphabets: A-Z, a-z.
rangeOfAlphabets ==
    {"A","B","C","D","E","F","G","H","I","J","K","L","M",
     "N","O","P","Q","R","S","T","U","V","W","X","Y","Z",
     "a","b","c","d","e","f","g","h","i","j","k","l","m",
     "n","o","p","q","r","s","t","u","v","w","x","y","z"}

\* unicode.RangeTable rangeOfAlNumMarks: '-', 0-9, A-Z, a-z.
rangeOfAlNumMarks ==
    {"-"} \cup {"0","1","2","3","4","5","6","7","8","9"} \cup rangeOfAlphabets

\* Faulty variant of IsAlphabet: the digits are let through as well.
IsAlphabetOrDigit(r) == r \in rangeOfAlNumMarks \ {"-"}

\* unicode.Is(rangeOfAlphabets, r).
IsAlphabet(r) == r \in rangeOfAlphabets

\* Faulty variant of IsAlNumMark: the table lacks the hyphen.
IsAlNumOnly(r) == r \in rangeOfAlNumMarks \ {"-"}

\* unicode.Is(rangeOfAlNumMarks, r).
IsAlNumMark(r) == r \in rangeOfAlNumMarks

----------------------------------------------------------------------------
(* Strings.                                                                *)

\* The empty string.
EmptyStr == <<>>

\* strings.HasPrefix(s, p).
HasPrefix(s, p) == Len(s) >= Len(p) /\ SubSeq(s, 1, Len(p)) = p

\* s[n:] for a 0-based byte offset n (every character modelled is one byte).
SliceFrom(s, n) == SubSeq(s, n + 1, Len(s))

\* s[0:n].
SliceTo(s, n) == SubSeq(s, 1, n)

\* The terminator token "--".
Terminator == <<"-", "-">>

----------------------------------------------------------------------------
(* Errors and results.                                                     *)

\* sabi.Ok().
Ok == [kind |-> "Ok", Option |-> EmptyStr]

\* sabi.NewErr(InvalidOption{Option: o}).
InvalidOption(o) == [kind |-> "InvalidOption", Option |-> o]

\* A map[string][]string as a function from its keys; the empty map.
EmptyMap == [o \in {} |-> <<>>]

\* Args{}: the zero value Parse returns beside an error.
ZeroArgs == [optParams |-> EmptyMap, cmdParams |-> <<>>]

\* Args.HasOpt.
HasOpt(a, opt) == opt \in DOMAIN a.optParams

\* Args.OptParams (a missing key gives the nil slice, of length 0).
OptParams(a, opt) == IF opt \in DOMAIN a.optParams THEN a.optParams[opt] ELSE <<>>

\* Args.OptParam.
OptParam(a, opt) ==
    LET arr == OptParams(a, opt)
    IN  IF Len(arr) = 0 THEN EmptyStr ELSE arr[1]

\* Args.CmdParams.
CmdParams(a) == a.cmdParams

----------------------------------------------------------------------------
(* The collector closures of Parse.                                        *)

\* Faulty variant of CollCmdParams: the new parameters are put in front.
CollCmdParamsPrepend(cmd, params) == params \o cmd

\* collCmdParams: cmdParams = append(cmdParams, params...).
CollCmdParams(cmd, params) == cmd \o params

\* Faulty variant of CollOptParams: a call without parameters creates no key.
CollOptParamsNoKey(m, opt, params) ==
    IF Len(params) = 0 THEN m
    ELSE IF opt \in DOMAIN m THEN [m EXCEPT ![opt] = @ \o params]
    ELSE m @@ (opt :> params)

\* Faulty variant of CollOptParams: the new parameters replace the former ones.
CollOptParamsReplace(m, opt, params) ==
    IF opt \in DOMAIN m
    THEN [m EXCEPT ![opt] = IF Len(params) > 0 THEN params ELSE @]
    ELSE m @@ (opt :> params)

\* Faulty variant of CollOptParams: the new values are put in front of the
\* values the option has.
CollOptParamsPrepend(m, opt, params) ==
    IF opt \in DOMAIN m THEN [m EXCEPT ![opt] = params \o @]
    ELSE m @@ (opt :> params)

\* collOptParams: optParams[opt] = append(arr, params...), arr empty at first.
CollOptParams(m, opt, params) ==
    IF opt \in DOMAIN m THEN [m EXCEPT ![opt] = @ \o params] ELSE m @@ (opt :> params)

\* Faulty variant of TakeParams: the predicate answers true for every name.
TakeParamsAlways(take, opt) == TRUE

\* takeParams(opt): _false for Parse, and the predicates a configured caller
\* passes, as the set of names for which the predicate answers true.
TakeParams(take, opt) == opt \in take

----------------------------------------------------------------------------
(* The loop state of parseArgs with the two collections the closures fill, *)
(* as one record: st.err is the error the iteration returned, Ok if none.  *)

InitialScan ==
    [isNonOpt |-> FALSE, prev |-> EmptyStr, optParams |-> EmptyMap,
     cmdParams |-> <<>>, err |-> Ok]

\* Faulty variant of Branch: the test of isNonOpt is missing, so the
\* terminator does not end the option recognition.
BranchNoTerminatorMode(st, arg) ==
    IF arg = Terminator THEN "terminator"
    ELSE IF Len(st.prev) > 0 THEN "param"
    ELSE IF HasPrefix(arg, <<"-", "-">>) THEN "long"
    ELSE IF HasPrefix(arg, <<"-">>) THEN "short"
    ELSE "cmd"

\* The branch of the if/else-if chain an iteration takes.
Branch(st, arg) ==
    IF st.isNonOpt THEN "nonopt"
    ELSE IF arg = Terminator THEN "terminator"
    ELSE IF Len(st.prev) > 0 THEN "param"
    ELSE IF HasPrefix(arg, <<"-", "-">>) THEN "long"
    ELSE IF HasPrefix(arg, <<"-">>) THEN "short"
    ELSE "cmd"

\* if isNonOpt { collectCmdParams(arg) }
StepNonOpt(st, arg) == [st EXCEPT !.cmdParams = CollCmdParams(@, <<arg>>)]

\* else if arg == "--" { isNonOpt = true }
StepTerminator(st, arg) == [st EXCEPT !.isNonOpt = TRUE]

\* else if len(prevOptTakingParams) > 0 { collectOptParams(prev, arg); prev = "" }
StepParam(st, arg) ==
    [st EXCEPT !.optParams = CollOptParams(@, st.prev, <<arg>>),
               !.prev = EmptyStr]

\* The rune scan of the long-option branch, from 0-based position i of the
\* name: where it stops (i) and whether it stopped on a rejected rune (bad).
RECURSIVE LongScan(_, _)
LongScan(name, i) ==
    IF i = Len(name) THEN [i |-> i, bad |-> FALSE]
    ELSE LET r == name[i + 1]
         IN  IF i > 0
             THEN IF r = "=" THEN [i |-> i, bad |-> FALSE]
                  ELSE IF ~IsAlNumMark(r) THEN [i |-> i, bad |-> TRUE]
                  ELSE LongScan(name, i + 1)
             ELSE IF ~IsAlphabet(r) THEN [i |-> i, bad |-> TRUE]
                  ELSE LongScan(name, i + 1)

\* Faulty variant of StepLongOpt: the inline value is sliced from the '=',
\* not from the character after it.
StepLongOptKeepsEq(st, arg, take) ==
    LET name == SliceFrom(arg, 2)
        scan == LongScan(name, 0)
    IN  IF scan.bad THEN [st EXCEPT !.err = InvalidOption(name)]
        ELSE IF scan.i = Len(name)
        THEN [st EXCEPT !.optParams = CollOptParams(@, name, <<>>),
                        !.prev = IF TakeParams(take, name) THEN name ELSE @]
        ELSE [st EXCEPT !.optParams =
                  CollOptParams(@, SliceTo(name, scan.i), <<SliceFrom(name, scan.i)>>)]

\* else if strings.HasPrefix(arg, "--") { ... }
StepLongOpt(st, arg, take) ==
    LET name == SliceFrom(arg, 2)
        scan == LongScan(name, 0)
    IN  IF scan.bad THEN [st EXCEPT !.err = InvalidOption(name)]
        ELSE IF scan.i = Len(name)
        THEN [st EXCEPT !.optParams = CollOptParams(@, name, <<>>),
                        !.prev = IF TakeParams(take, name) THEN name ELSE @]
        ELSE [st EXCEPT !.optParams =
                  CollOptParams(@, SliceTo(name, scan.i), <<SliceFrom(name, scan.i + 1)>>)]

RECURSIVE ShortScan(_, _, _, _)

\* Faulty variant of ShortScan: the inline value is given to the first option
\* of the cluster, not to the last.
ShortScanValueToFirst(m, cluster, i, opt) ==
    IF i = Len(cluster) THEN [m |-> m, i |-> i, opt |-> opt, err |-> Ok]
    ELSE LET r == cluster[i + 1]
         IN  IF i > 0 /\ r = "="
             THEN [m |-> CollOptParams(m, <<cluster[1]>>, <<SliceFrom(cluster, i + 1)>>),
                   i |-> i, opt |-> opt, err |-> Ok]
             ELSE IF ~IsAlphabet(r)
             THEN [m |-> m, i |-> i, opt |-> <<r>>, err |-> InvalidOption(<<r>>)]
             ELSE ShortScan(CollOptParams(m, <<r>>, <<>>), cluster, i + 1, <<r>>)

\* The rune scan of the short-option branch, from 0-based position i of the
\* cluster, with the map the collector has filled so far (m) and the last
\* option seen (opt): the map, i and opt when the loop ends, and its error.
ShortScan(m, cluster, i, opt) ==
    IF i = Len(cluster) THEN [m |-> m, i |-> i, opt |-> opt, err |-> Ok]
    ELSE LET r == cluster[i + 1]
         IN  IF i > 0 /\ r = "="
             THEN [m |-> CollOptParams(m, opt, <<SliceFrom(cluster, i + 1)>>),
                   i |-> i, opt |-> opt, err |-> Ok]
             ELSE IF ~IsAlphabet(r)
             THEN [m |-> m, i |-> i, opt |-> <<r>>, err |-> InvalidOption(<<r>>)]
             ELSE ShortScan(CollOptParams(m, <<r>>, <<>>), cluster, i + 1, <<r>>)

\* Faulty variant of StepShortOpt: the predicate is asked about the first
\* character of the cluster too, which then awaits the next token.
StepShortOptFirstAwaits(st, arg, take) ==
    LET cluster == SliceFrom(arg, 1)
        scan == ShortScan(st.optParams, cluster, 0, EmptyStr)
    IN  [st EXCEPT !.optParams = scan.m,
                   !.err = scan.err,
                   !.prev = IF scan.err = Ok /\ scan.i = Len(cluster)
                               /\ TakeParams(take, scan.opt)
                            THEN scan.opt
                            ELSE IF scan.err = Ok /\ Len(cluster) > 0
                                    /\ TakeParams(take, <<cluster[1]>>)
                            THEN <<cluster[1]>> ELSE @]

\* Faulty variant of StepShortOpt: a prefix with no character after it is
\* collected as a command parameter.
StepShortOptLoneDashIsParam(st, arg, take) ==
    LET cluster == SliceFrom(arg, 1)
        scan == ShortScan(st.optParams, cluster, 0, EmptyStr)
    IN  IF Len(cluster) = 0
        THEN [st EXCEPT !.cmdParams = CollCmdParams(@, <<arg>>)]
        ELSE [st EXCEPT !.optParams = scan.m,
                        !.err = scan.err,
                        !.prev = IF scan.err = Ok /\ scan.i = Len(cluster)
                                    /\ TakeParams(take, scan.opt)
                                 THEN scan.opt ELSE @]

\* else if strings.HasPrefix(arg, "-") { ... }
StepShortOpt(st, arg, take) ==
    LET cluster == SliceFrom(arg, 1)
        scan == ShortScan(st.optParams, cluster, 0, EmptyStr)
    IN  [st EXCEPT !.optParams = scan.m,
                   !.err = scan.err,
                   !.prev = IF scan.err = Ok /\ scan.i = Len(cluster)
                               /\ TakeParams(take, scan.opt)
                            THEN scan.opt ELSE @]

\* else { collectCmdParams(arg) }
StepCmdParam(st, arg) == [st EXCEPT !.cmdParams = CollCmdParams(@, <<arg>>)]

\* One iteration of the range loop.
Step(st, arg, take) ==
    LET b == Branch(st, arg)
    IN  CASE b = "nonopt"     -> StepNonOpt(st, arg)
          [] b = "terminator" -> StepTerminator(st, arg)
          [] b = "param"      -> StepParam(st, arg)
          [] b = "long"       -> StepLongOpt(st, arg, take)
          [] b = "short"      -> StepShortOpt(st, arg, take)
          [] OTHER            -> StepCmdParam(st, arg)

\* Faulty variant of ParseArgsFrom: the loop goes on after an error.
RECURSIVE ParseArgsFromNoStop(_, _, _)
ParseArgsFromNoStop(st, rest, take) ==
    IF rest = <<>> THEN st
    ELSE ParseArgsFromNoStop(Step(st, Head(rest), take), Tail(rest), take)

\* parseArgs: the loop over the tokens, left at the first error.
RECURSIVE ParseArgsFrom(_, _, _)
ParseArgsFrom(st, rest, take) ==
    IF rest = <<>> \/ st.err # Ok THEN st
    ELSE ParseArgsFrom(Step(st, Head(rest), take), Tail(rest), take)

\* Faulty variant of ParseReturn: what was collected is returned beside the
\* error too.
ParseReturnPartial(st) ==
    [args |-> [optParams |-> st.optParams, cmdParams |-> st.cmdParams], err |-> st.err]

\* What Parse returns for the final loop state: Args{} beside an error.
ParseReturn(st) ==
    IF st.err # Ok THEN [args |-> ZeroArgs, err |-> st.err]
    ELSE [args |-> [optParams |-> st.optParams, cmdParams |-> st.cmdParams],
          err |-> Ok]

\* Parse, on an explicit token list and predicate.
Parse(tokens, take) == ParseReturn(ParseArgsFrom(InitialScan, tokens, take))

----------------------------------------------------------------------------
(* ParseWith: the option configurations, the resolution of an option name  *)
(* and the collector and the predicate ParseWith hands to parseArgs.       *)

\* OptCfg{Name: "*"}: the configuration that stands for any other option.
AnyOption == <<"*">>

\* An OptCfg: Name, Aliases, HasParam, IsArray and the default values.
OptCfg(name, aliases, hasParam, isArray, default) ==
    [Name |-> name, Aliases |-> aliases, HasParam |-> hasParam,
     IsArray |-> isArray, Default |-> default]

\* The error reasons of ParseWith.
UnconfiguredOption(o) == [kind |-> "UnconfiguredOption", Option |-> o]
OptionNeedsParam(o) == [kind |-> "OptionNeedsParam", Option |-> o]
OptionTakesNoParam(o) == [kind |-> "OptionTakesNoParam", Option |-> o]
OptionIsNotArray(o) == [kind |-> "OptionIsNotArray", Option |-> o]
ConfigIsArrayButHasNoParam(o) == [kind |-> "ConfigIsArrayButHasNoParam", Option |-> o]

\* The least element of a non-empty set of positions.
First(S) == CHOOSE i \in S : \A j \in S : i <= j

\* The positions of the configurations an option matches by name or alias.
MatchesOf(cfgs, opt) ==
    {i \in 1..Len(cfgs) :
        cfgs[i].Name # AnyOption /\ (cfgs[i].Name = opt \/ opt \in cfgs[i].Aliases)}

\* The positions of the configurations named "*".
AnyOptionsOf(cfgs) == {i \in 1..Len(cfgs) : cfgs[i].Name = AnyOption}

\* Faulty variant of IsConfigured: no configuration at all accepts every
\* option, as if "*" were configured.
IsConfiguredOrNoCfg(cfgs, opt) ==
    MatchesOf(cfgs, opt) # {} \/ AnyOptionsOf(cfgs) # {} \/ Len(cfgs) = 0

\* Faulty variant of IsConfigured: the configuration named "*" is not looked
\* for.
IsConfiguredByMatch(cfgs, opt) == MatchesOf(cfgs, opt) # {}

\* An option is configured when a configuration matches it or "*" is
\* configured; with no configuration at all no option is.
IsConfigured(cfgs, opt) == MatchesOf(cfgs, opt) # {} \/ AnyOptionsOf(cfgs) # {}

\* The configuration that applies to an option: the first that matches in
\* declaration order, the one named "*" if none matches, and for an option
\* that is not configured the zero value OptCfg{}.
CfgOf(cfgs, opt) ==
    IF MatchesOf(cfgs, opt) # {} THEN cfgs[First(MatchesOf(cfgs, opt))]
    ELSE IF AnyOptionsOf(cfgs) # {} THEN cfgs[First(AnyOptionsOf(cfgs))]
    ELSE OptCfg(EmptyStr, {}, FALSE, FALSE, <<>>)

\* The key under which a configured option is recorded: the Name of the
\* configuration that matches it, its own name under "*".
StoreName(cfgs, opt) ==
    IF MatchesOf(cfgs, opt) # {} THEN cfgs[First(MatchesOf(cfgs, opt))].Name ELSE opt

\* Faulty variant of ValidateCfgs: the configurations are not looked at.
ValidateCfgsNone(cfgs) == Ok

\* The pass over the configurations before the scan: the first configuration
\* that is an array and has no parameter is an error.
ValidateCfgs(cfgs) ==
    LET bad == {i \in 1..Len(cfgs) : cfgs[i].IsArray /\ ~cfgs[i].HasParam}
    IN  IF bad = {} THEN Ok ELSE ConfigIsArrayButHasNoParam(cfgs[First(bad)].Name)

\* collectOptParams of ParseWith: the map after the call and the error the
\* call returns.
CollectOptParamsWith(cfgs, m, opt, params) ==
    IF ~IsConfigured(cfgs, opt) THEN [m |-> m, err |-> UnconfiguredOption(opt)]
    ELSE [m |-> CollOptParams(m, StoreName(cfgs, opt), params), err |-> Ok]

\* takeParams of ParseWith: HasParam of the configuration that applies.
TakeParamsWith(cfgs, opt) == IsConfigured(cfgs, opt) /\ CfgOf(cfgs, opt).HasParam

----------------------------------------------------------------------------
(* parseArgs with the collector and the predicate of ParseWith: the        *)
(* branches that call collectOptParams return the error it returns.        *)

\* Faulty variant of StepParamWith: the token is collected under the name as
\* written, past the collector of ParseWith.
StepParamWithAsWritten(st, arg, cfgs) ==
    [st EXCEPT !.optParams = CollOptParams(@, st.prev, <<arg>>), !.prev = EmptyStr]

\* else if len(prevOptTakingParams) > 0 { ... }
StepParamWith(st, arg, cfgs) ==
    LET c == CollectOptParamsWith(cfgs, st.optParams, st.prev, <<arg>>)
    IN  IF c.err # Ok THEN [st EXCEPT !.err = c.err]
        ELSE [st EXCEPT !.optParams = c.m, !.prev = EmptyStr]

\* Faulty variant of StepLongOptWith: the error of the collector is dropped
\* and the scan goes on.
StepLongOptWithNoErr(st, arg, cfgs) ==
    LET name == SliceFrom(arg, 2)
        scan == LongScan(name, 0)
    IN  IF scan.bad THEN [st EXCEPT !.err = InvalidOption(name)]
        ELSE IF scan.i = Len(name)
        THEN [st EXCEPT !.optParams = CollectOptParamsWith(cfgs, @, name, <<>>).m,
                        !.prev = IF TakeParamsWith(cfgs, name) THEN name ELSE @]
        ELSE [st EXCEPT !.optParams =
                  CollectOptParamsWith(cfgs, @, SliceTo(name, scan.i),
                                       <<SliceFrom(name, scan.i + 1)>>).m]

\* else if strings.HasPrefix(arg, "--") { ... }
StepLongOptWith(st, arg, cfgs) ==
    LET name == SliceFrom(arg, 2)
        scan == LongScan(name, 0)
    IN  IF scan.bad THEN [st EXCEPT !.err = InvalidOption(name)]
        ELSE IF scan.i = Len(name)
        THEN LET c == CollectOptParamsWith(cfgs, st.optParams, name, <<>>)
             IN  IF c.err # Ok THEN [st EXCEPT !.err = c.err]
                 ELSE [st EXCEPT !.optParams = c.m,
                                 !.prev = IF TakeParamsWith(cfgs, name) THEN name ELSE @]
        ELSE LET c == CollectOptParamsWith(cfgs, st.optParams, SliceTo(name, scan.i),
                                           <<SliceFrom(name, scan.i + 1)>>)
             IN  IF c.err # Ok THEN [st EXCEPT !.err = c.err]
                 ELSE [st EXCEPT !.optParams = c.m]

RECURSIVE ShortScanWith(_, _, _, _, _)

\* Faulty variant of ShortScanWith: the scan stops at the '=' and the inline
\* value is not collected.
ShortScanWithDropsValue(cfgs, m, cluster, i, opt) ==
    IF i = Len(cluster) THEN [m |-> m, i |-> i, opt |-> opt, err |-> Ok]
    ELSE LET r == cluster[i + 1]
         IN  IF i > 0 /\ r = "="
             THEN [m |-> m, i |-> i, opt |-> opt, err |-> Ok]
             ELSE IF ~IsAlphabet(r)
             THEN [m |-> m, i |-> i, opt |-> <<r>>, err |-> InvalidOption(<<r>>)]
             ELSE LET c == CollectOptParamsWith(cfgs, m, <<r>>, <<>>)
                  IN  IF c.err # Ok
                      THEN [m |-> m, i |-> i, opt |-> <<r>>, err |-> c.err]
                      ELSE ShortScanWith(cfgs, c.m, cluster, i + 1, <<r>>)

\* The rune scan of the short-option branch with the collector of ParseWith.
ShortScanWith(cfgs, m, cluster, i, opt) ==
    IF i = Len(cluster) THEN [m |-> m, i |-> i, opt |-> opt, err |-> Ok]
    ELSE LET r == cluster[i + 1]
         IN  IF i > 0 /\ r = "="
             THEN LET c == CollectOptParamsWith(cfgs, m, opt, <<SliceFrom(cluster, i + 1)>>)
                  IN  [m |-> c.m, i |-> i, opt |-> opt, err |-> c.err]
             ELSE IF ~IsAlphabet(r)
             THEN [m |-> m, i |-> i, opt |-> <<r>>, err |-> InvalidOption(<<r>>)]
             ELSE LET c == CollectOptParamsWith(cfgs, m, <<r>>, <<>>)
                  IN  IF c.err # Ok
                      THEN [m |-> m, i |-> i, opt |-> <<r>>, err |-> c.err]
                      ELSE ShortScanWith(cfgs, c.m, cluster, i + 1, <<r>>)

\* Faulty variant of StepShortOptWith: takeParams is not consulted, no short
\* option awaits the token that follows.
StepShortOptWithNoAwait(st, arg, cfgs) ==
    LET cluster == SliceFrom(arg, 1)
        scan == ShortScanWith(cfgs, st.optParams, cluster, 0, EmptyStr)
    IN  [st EXCEPT !.optParams = scan.m, !.err = scan.err]

\* else if strings.HasPrefix(arg, "-") { ... }
StepShortOptWith(st, arg, cfgs) ==
    LET cluster == SliceFrom(arg, 1)
        scan == ShortScanWith(cfgs, st.optParams, cluster, 0, EmptyStr)
    IN  [st EXCEPT !.optParams = scan.m,
                   !.err = scan.err,
                   !.prev = IF scan.err = Ok /\ scan.i = Len(cluster)
                               /\ TakeParamsWith(cfgs, scan.opt)
                            THEN scan.opt ELSE @]

\* One iteration of the range loop, called by ParseWith.
StepWith(st, arg, cfgs) ==
    LET b == Branch(st, arg)
    IN  CASE b = "nonopt"     -> StepNonOpt(st, arg)
          [] b = "terminator" -> StepTerminator(st, arg)
          [] b = "param"      -> StepParamWith(st, arg, cfgs)
          [] b = "long"       -> StepLongOptWith(st, arg, cfgs)
          [] b = "short"      -> StepShortOptWith(st, arg, cfgs)
          [] OTHER            -> StepCmdParam(st, arg)

\* parseArgs called by ParseWith: the loop, left at the first error.
RECURSIVE ParseArgsWithFrom(_, _, _)
ParseArgsWithFrom(st, rest, cfgs) ==
    IF rest = <<>> \/ st.err # Ok THEN st
    ELSE ParseArgsWithFrom(StepWith(st, Head(rest), cfgs), Tail(rest), cfgs)

----------------------------------------------------------------------------
(* ParseWith after the scan: the arity rules on what was collected, the    *)
(* default values, and what ParseWith returns.                             *)

\* The arity rules broken by what the scan collected.  The order in which
\* the rules are tried is not fixed: any broken rule may be the one reported.
ArityViolations(cfgs, m) ==
    {OptionTakesNoParam(k) : k \in {n \in DOMAIN m : ~CfgOf(cfgs, n).HasParam /\ Len(m[n]) > 0}}
    \cup {OptionNeedsParam(k) : k \in {n \in DOMAIN m : CfgOf(cfgs, n).HasParam /\ Len(m[n]) = 0}}
    \cup {OptionIsNotArray(k) : k \in {n \in DOMAIN m : ~CfgOf(cfgs, n).IsArray /\ Len(m[n]) > 1}}

\* The options that get their default values: those configured with default
\* values and not collected by the scan.
DefaultedOf(cfgs, m) ==
    {cfgs[i].Name : i \in {j \in 1..Len(cfgs) :
        /\ cfgs[j].Name # AnyOption
        /\ Len(cfgs[j].Default) > 0
        /\ cfgs[j].Name \notin DOMAIN m}}

\* The map with the default values added.
WithDefaults(cfgs, m) ==
    m @@ [n \in DefaultedOf(cfgs, m) |-> cfgs[First(MatchesOf(cfgs, n))].Default]

\* Faulty variant of ParseWithReturns: the arity rules are not applied.
ParseWithReturnsNoArity(st, cfgs) ==
    IF st.err # Ok THEN {[args |-> ZeroArgs, err |-> st.err]}
    ELSE {[args |-> [optParams |-> WithDefaults(cfgs, st.optParams),
                     cmdParams |-> st.cmdParams],
           err |-> Ok]}

\* What ParseWith may return for the final loop state: Args{} beside the
\* error of the scan or beside a broken arity rule, else what was collected
\* with the default values.
ParseWithReturns(st, cfgs) ==
    IF st.err # Ok THEN {[args |-> ZeroArgs, err |-> st.err]}
    ELSE IF ArityViolations(cfgs, st.optParams) # {}
    THEN {[args |-> ZeroArgs, err |-> e] : e \in ArityViolations(cfgs, st.optParams)}
    ELSE {[args |-> [optParams |-> WithDefaults(cfgs, st.optParams),
                     cmdParams |-> st.cmdParams],
           err |-> Ok]}

\* ParseWith, on an explicit token list: the set of its possible returns.
ParseWith(tokens, cfgs) ==
    IF ValidateCfgs(cfgs) # Ok THEN {[args |-> ZeroArgs, err |-> ValidateCfgs(cfgs)]}
    ELSE ParseWithReturns(ParseArgsWithFrom(InitialScan, tokens, cfgs), cfgs)

----------------------------------------------------------------------------
(* The inputs: argument lists over tokens generated from the option        *)
(* syntax, and the predicates handed to parseArgs.                         *)

\* Strings over chars of length at most n.
Strs(chars, n) == UNION {[1..k -> chars] : k \in 0..n}

\* Characters of generated names: letters, a digit, the hyphen, a mark that
\* is in neither range table.
NameChars == {"a", "b", "1", "-", "@"}

\* What may follow a name: nothing, or '=' and a value ("", "@", "=").
Inlines == {<<>>, <<"=">>, <<"=", "@">>, <<"=", "=">>}

\* No prefix (a bare token), the short-option and the long-option prefix.
Prefixes == {<<>>, <<"-">>, <<"-", "-">>}

Tokens ==
    {p \o n \o v : p \in Prefixes, n \in Strs(NameChars, MaxNameLen), v \in Inlines}

\* The tokens that may fill every position of an argument list: a bare token,
\* the terminator, a short option, a short option with an inline value.
CoreTokens ==
    {<<"a">>, Terminator, <<"-", "a">>, <<"-", "a", "=", "x">>}

\* Lists of at most n core tokens.
CoreLists(n) == UNION {[1..k -> CoreTokens] : k \in 0..n}

\* Argument lists of at most MaxArgs tokens: any token of Tokens at one
\* position, core tokens before and after it.
BoundedInputs ==
    CoreLists(MaxArgs)
    \cup UNION {{pre \o <<t>> \o post :
                    t \in Tokens, post \in CoreLists(MaxArgs - 1 - Len(pre))} :
                pre \in CoreLists(MaxArgs - 1)}

\* The argument list of the usage example of Parse:
\* [--foo-bar=A -a --baz -bc=3 qux].
UsageArgs ==
    << <<"-","-","f","o","o","-","b","a","r","=","A">>, <<"-","a">>,
       <<"-","-","b","a","z">>, <<"-","b","c","=","3">>, <<"q","u","x">> >>

Inputs == BoundedInputs \cup {UsageArgs}

\* The predicates: _false (what Parse passes), and one true of "a" alone.
TakeSets == {{}, {<<"a">>}}

----------------------------------------------------------------------------
(* The state machine.                                                      *)

\* The loop state as a record, and its assignment to the variables.
Cur ==
    [isNonOpt |-> isNonOpt, prev |-> prevOptTakingParams, optParams |-> optParams,
     cmdParams |-> cmdParams, err |-> Ok]

Assign(st) ==
    /\ isNonOpt' = st.isNonOpt
    /\ prevOptTakingParams' = st.prev
    /\ optParams' = st.optParams
    /\ cmdParams' = st.cmdParams

\* The end of an iteration: the next token, or the return of the error.
Advance(st) ==
    /\ Assign(st)
    /\ idx' = idx + 1
    /\ IF st.err # Ok
       THEN pc' = "done" /\ ret' = ParseReturn(st)
       ELSE pc' = "scan" /\ UNCHANGED ret
    /\ UNCHANGED <<args, takeParams, optCfgs>>
    /\ UNCHANGED <<daxVars, held>>

Scanning == pc = "scan" /\ idx < Len(args)

\* The token of the current iteration.
Arg == args[idx + 1]

NoReturn == [args |-> ZeroArgs, err |-> Ok]

\* any(nil): no option store.
Nil == "nil"

\* cliargs.Cmd{}: the zero value of the parse result a DaxSrc holds.
ZeroCmd == [Name |-> EmptyStr, args |-> ZeroArgs]

\* &DaxSrc{}
ZeroDaxSrc == [cmd |-> ZeroCmd, optCfgs |-> <<>>, options |-> Nil]

\* A call and what it returned: the method, the DaxConn it was called on (0
\* for the DaxSrc), its argument, the error and the value returned.
Call(op, conn, arg, err, val) ==
    [op |-> op, conn |-> conn, arg |-> arg, err |-> err, val |-> val]

\* A slice in the hands of a caller: the accessor it came from, the option
\* asked for, its elements, and whether it still shares its array with the
\* slice the Args holds.
Slice(from, opt, elems, aliased) ==
    [from |-> from, opt |-> opt, elems |-> elems, aliased |-> aliased]

\* The caller holds no slice.
NoSlice == Slice("none", EmptyStr, <<>>, FALSE)

\* A run of Parse or ParseWith on its own: no dax source is in use, and no
\* caller has the result yet.
NoDax ==
    /\ osArgs = <<>>
    /\ ds = ZeroDaxSrc
    /\ conns = 0
    /\ call = Call("none", 0, Nil, Ok, Nil)
    /\ held = NoSlice

Init ==
    /\ args \in Inputs
    /\ takeParams \in TakeSets
    /\ idx = 0
    /\ isNonOpt = FALSE
    /\ prevOptTakingParams = EmptyStr
    /\ optParams = EmptyMap
    /\ cmdParams = <<>>
    /\ pc = "scan"
    /\ ret = NoReturn
    /\ optCfgs = <<>>
    /\ NoDax

ScanNonOpt ==
    /\ Scanning /\ Branch(Cur, Arg) = "nonopt"
    /\ Advance(StepNonOpt(Cur, Arg))

ScanTerminator ==
    /\ Scanning /\ Branch(Cur, Arg) = "terminator"
    /\ Advance(StepTerminator(Cur, Arg))

ScanParam ==
    /\ Scanning /\ Branch(Cur, Arg) = "param"
    /\ Advance(StepParam(Cur, Arg))

ScanLongOpt ==
    /\ Scanning /\ Branch(Cur, Arg) = "long"
    /\ Advance(StepLongOpt(Cur, Arg, takeParams))

ScanShortOpt ==
    /\ Scanning /\ Branch(Cur, Arg) = "short"
    /\ Advance(StepShortOpt(Cur, Arg, takeParams))

ScanCmdParam ==
    /\ Scanning /\ Branch(Cur, Arg) = "cmd"
    /\ Advance(StepCmdParam(Cur, Arg))

\* The loop has consumed every token: parseArgs returns sabi.Ok() and Parse
\* returns the Args it has collected.
Return ==
    /\ pc = "scan" /\ idx = Len(args)
    /\ pc' = "done"
    /\ ret' = ParseReturn(Cur)
    /\ UNCHANGED <<args, takeParams, idx, isNonOpt, prevOptTakingParams,
                   optParams, cmdParams, optCfgs>>
    /\ UNCHANGED <<daxVars, held>>

Next ==
    \/ ScanNonOpt
    \/ ScanTerminator
    \/ ScanParam
    \/ ScanLongOpt
    \/ ScanShortOpt
    \/ ScanCmdParam
    \/ Return

Spec == Init /\ [][Next]_vars

----------------------------------------------------------------------------
(* The inputs of ParseWith.                                                *)

\* The option names of the generated configurations and tokens.
CfgNames == {<<"a">>, <<"b">>, <<"c">>, <<"a", "b">>}

\* The tokens that take the free position of an argument list: every name as
\* a short and as a long option, bare, with an empty and with a non-empty
\* inline value; the empty token; a short option that is no letter.
WithTokens ==
    {p \o n \o v : p \in {<<"-">>, <<"-", "-">>}, n \in CfgNames,
                   v \in {<<>>, <<"=">>, <<"=", "y">>}}
    \cup {EmptyStr, <<"-", "@">>}

\* Argument lists of at most MaxArgs tokens: a token of WithTokens at one
\* position, core tokens before and after it.
WithInputs ==
    CoreLists(MaxArgs)
    \cup UNION {{pre \o <<t>> \o post :
                    t \in WithTokens, post \in CoreLists(MaxArgs - 1 - Len(pre))} :
                pre \in CoreLists(MaxArgs - 1)}

\* No configuration.
NoCfgs == <<>>

\* "b" with the alias "a" takes parameters, any number of them.
ArrayCfgs == <<OptCfg(<<"b">>, {<<"a">>}, TRUE, TRUE, <<>>)>>

\* "b" with the alias "a" takes one parameter; "c" takes parameters and has
\* a default value.
SingleCfgs ==
    <<OptCfg(<<"b">>, {<<"a">>}, TRUE, FALSE, <<>>),
      OptCfg(<<"c">>, {}, TRUE, TRUE, <<<<"d">>>>)>>

\* "a" takes no parameter.
FlagCfgs == <<OptCfg(<<"a">>, {}, FALSE, FALSE, <<>>)>>

\* "a" takes no parameter, and any other option is accepted.
AnyCfgs ==
    <<OptCfg(<<"a">>, {}, FALSE, FALSE, <<>>), OptCfg(AnyOption, {}, FALSE, FALSE, <<>>)>>

\* Any option is accepted and takes one parameter.
AnyParamCfgs == <<OptCfg(AnyOption, {}, TRUE, FALSE, <<>>)>>

\* "b" is an array and has no parameter.
ArrayNoParamCfgs ==
    <<OptCfg(<<"a">>, {}, FALSE, FALSE, <<>>), OptCfg(<<"b">>, {}, FALSE, TRUE, <<>>)>>

CfgSets ==
    {NoCfgs, ArrayCfgs, SingleCfgs, FlagCfgs, AnyCfgs, AnyParamCfgs, ArrayNoParamCfgs}

\* The usage example of ParseWith: the argument list
\* [--foo-bar qux --baz 1 -z=2 -X quux] and its configurations.
UsageWithArgs ==
    << <<"-","-","f","o","o","-","b","a","r">>, <<"q","u","x">>,
       <<"-","-","b","a","z">>, <<"1">>, <<"-","z","=","2">>, <<"-","X">>,
       <<"q","u","u","x">> >>

UsageCfgs ==
    <<OptCfg(<<"f","o","o","-","b","a","r">>, {}, FALSE, FALSE, <<>>),
      OptCfg(<<"b","a","z">>, {<<"z">>}, TRUE, TRUE, <<>>),
      OptCfg(AnyOption, {}, FALSE, FALSE, <<>>)>>

\* The names the configurations mention for which takeParams answers true.
TakeSetOf(cfgs) ==
    {n \in UNION {{cfgs[i].Name} \cup cfgs[i].Aliases : i \in 1..Len(cfgs)} :
        n # AnyOption /\ TakeParamsWith(cfgs, n)}

----------------------------------------------------------------------------
(* The state machine of ParseWith: the pass over the configurations, then  *)
(* the loop of parseArgs, then the arity rules and the return.             *)

InitWith ==
    /\ \E in \in (WithInputs \X CfgSets) \cup {<<UsageWithArgs, UsageCfgs>>} :
            args = in[1] /\ optCfgs = in[2]
    /\ takeParams = TakeSetOf(optCfgs)
    /\ idx = 0
    /\ isNonOpt = FALSE
    /\ prevOptTakingParams = EmptyStr
    /\ optParams = EmptyMap
    /\ cmdParams = <<>>
    /\ pc = "cfg"
    /\ ret = NoReturn
    /\ NoDax

\* The pass over the configurations: the scan starts, or ParseWith returns
\* the error of the configurations.
WithCheckCfgs ==
    /\ pc = "cfg"
    /\ IF ValidateCfgs(optCfgs) # Ok
       THEN pc' = "done" /\ ret' = [args |-> ZeroArgs, err |-> ValidateCfgs(optCfgs)]
       ELSE pc' = "scan" /\ UNCHANGED ret
    /\ UNCHANGED <<args, takeParams, idx, isNonOpt, prevOptTakingParams,
                   optParams, cmdParams, optCfgs>>
    /\ UNCHANGED <<daxVars, held>>

\* The end of an iteration: the next token, or the return of the error.
AdvanceWith(st) ==
    /\ Assign(st)
    /\ idx' = idx + 1
    /\ IF st.err # Ok
       THEN pc' = "done" /\ ret' \in ParseWithReturns(st, optCfgs)
       ELSE pc' = "scan" /\ UNCHANGED ret
    /\ UNCHANGED <<args, takeParams, optCfgs>>
    /\ UNCHANGED <<daxVars, held>>

WithScanNonOpt ==
    /\ Scanning /\ Branch(Cur, Arg) = "nonopt"
    /\ AdvanceWith(StepNonOpt(Cur, Arg))

WithScanTerminator ==
    /\ Scanning /\ Branch(Cur, Arg) = "terminator"
    /\ AdvanceWith(StepTerminator(Cur, Arg))

WithScanParam ==
    /\ Scanning /\ Branch(Cur, Arg) = "param"
    /\ AdvanceWith(StepParamWith(Cur, Arg, optCfgs))

WithScanLongOpt ==
    /\ Scanning /\ Branch(Cur, Arg) = "long"
    /\ AdvanceWith(StepLongOptWith(Cur, Arg, optCfgs))

WithScanShortOpt ==
    /\ Scanning /\ Branch(Cur, Arg) = "short"
    /\ AdvanceWith(StepShortOptWith(Cur, Arg, optCfgs))

WithScanCmdParam ==
    /\ Scanning /\ Branch(Cur, Arg) = "cmd"
    /\ AdvanceWith(StepCmdParam(Cur, Arg))

\* The loop has consumed every token: ParseWith applies the arity rules and
\* returns.
WithReturn ==
    /\ pc = "scan" /\ idx = Len(args)
    /\ pc' = "done"
    /\ ret' \in ParseWithReturns(Cur, optCfgs)
    /\ UNCHANGED <<args, takeParams, idx, isNonOpt, prevOptTakingParams,
                   optParams, cmdParams, optCfgs>>
    /\ UNCHANGED <<daxVars, held>>

NextWith ==
    \/ WithCheckCfgs
    \/ WithScanNonOpt
    \/ WithScanTerminator
    \/ WithScanParam
    \/ WithScanLongOpt
    \/ WithScanShortOpt
    \/ WithScanCmdParam
    \/ WithReturn

SpecWith == InitWith /\ [][NextWith]_vars

----------------------------------------------------------------------------
(* The dax source and the dax connection (dax.go).  Setup runs one of the  *)
(* three parses of cliargs on os.Args and keeps the result on the DaxSrc;  *)
(* a DaxConn holds the pointer to its DaxSrc and nothing else.             *)

\* Most DaxConn values created from the DaxSrc.
MaxConns == 2

\* The option stores: pointers to structs with option fields.
OptionStores == {"storeAB", "storeC"}

\* What SetOptions may be given: nil, an option store, or a struct value
\* that is no pointer (MyOption{Flag: 111}).
OptionValues == {Nil, "value"} \cup OptionStores

\* The configurations ParseFor makes from the fields of an option store: a
\* bool field has no parameter, an int field has one.
OptCfgsFor(options) ==
    IF options = "storeAB"
    THEN <<OptCfg(<<"a">>, {}, FALSE, FALSE, <<>>), OptCfg(<<"b">>, {}, TRUE, FALSE, <<>>)>>
    ELSE <<OptCfg(<<"c">>, {}, TRUE, TRUE, <<>>)>>

\* ParseFor refuses an option store that is no pointer to a struct.
OptionStoreIsNotChangeable == [kind |-> "OptionStoreIsNotChangeable", Option |-> EmptyStr]

\* cmd.Name: the last element of the path os.Args[0].
RECURSIVE BaseName(_)
BaseName(path) ==
    IF path = <<>> THEN <<>>
    ELSE IF \E i \in 1..Len(path) : path[i] = "/"
    THEN BaseName(Tail(path))
    ELSE path

\* The Cmd made of os.Args[0] and of the Args of a parse.
CmdOf(os, a) == [Name |-> BaseName(Head(os)), args |-> a]

\* cliargs.Parse(): the zero-configuration parse of os.Args[1:].
DaxParse(os) ==
    LET r == Parse(Tail(os), {})
    IN  {[cmd |-> CmdOf(os, r.args), err |-> r.err]}

\* cliargs.ParseWith(os.Args, optCfgs): its possible returns.
DaxParseWith(os, cfgs) ==
    {[cmd |-> CmdOf(os, r.args), err |-> r.err] : r \in ParseWith(Tail(os), cfgs)}

\* cliargs.ParseFor(os.Args, options): the configurations of the option
\* store and the parse with them; its possible returns.
ParseFor(os, options) ==
    IF options \notin OptionStores
    THEN {[cmd |-> CmdOf(os, ZeroArgs), optCfgs |-> <<>>, err |-> OptionStoreIsNotChangeable]}
    ELSE {[cmd |-> r.cmd,
           optCfgs |-> IF r.err = Ok THEN OptCfgsFor(options) ELSE <<>>,
           err |-> r.err] : r \in DaxParseWith(os, OptCfgsFor(options))}

\* NewDaxSrc
NewDaxSrc == ZeroDaxSrc

\* NewDaxSrcWithOptCfgs
NewDaxSrcWithOptCfgs(cfgs) == [ZeroDaxSrc EXCEPT !.optCfgs = cfgs]

\* NewDaxSrcForOptions
NewDaxSrcForOptions(opts) == [ZeroDaxSrc EXCEPT !.options = opts]

\* Faulty variant of SetupMode: the stored configurations are looked at
\* before the option store.
SetupModeCfgsFirst(d) ==
    IF Len(d.optCfgs) > 0 THEN "ParseWith"
    ELSE IF d.options # Nil THEN "ParseFor"
    ELSE "Parse"

\* Setup: the if / else if / else that picks the parse.
SetupMode(d) ==
    IF d.options # Nil THEN "ParseFor"
    ELSE IF Len(d.optCfgs) > 0 THEN "ParseWith"
    ELSE "Parse"

\* Faulty variant of SetupFor: the configurations made from the option
\* store are not kept.
SetupForKeepsCfgs(d, r) ==
    IF r.err # Ok THEN [ds |-> d, err |-> r.err]
    ELSE [ds |-> [d EXCEPT !.cmd = r.cmd], err |-> Ok]

\* Setup, first branch: ds.cmd and ds.optCfgs are assigned when ParseFor
\* has not failed.
SetupFor(d, r) ==
    IF r.err # Ok THEN [ds |-> d, err |-> r.err]
    ELSE [ds |-> [d EXCEPT !.cmd = r.cmd, !.optCfgs = r.optCfgs], err |-> Ok]

\* Faulty variant of SetupCmd: the Cmd is kept beside an error too.
SetupCmdAlways(d, r) == [ds |-> [d EXCEPT !.cmd = r.cmd], err |-> r.err]

\* Setup, second and third branch: ds.cmd is assigned when the parse has not
\* failed.
SetupCmd(d, r) ==
    IF r.err # Ok THEN [ds |-> d, err |-> r.err]
    ELSE [ds |-> [d EXCEPT !.cmd = r.cmd], err |-> Ok]

\* Setup: the DaxSrc after the call and the error returned, for every
\* return the parse may make.
SetupReturns(d, os) ==
    CASE SetupMode(d) = "ParseFor"  -> {SetupFor(d, r) : r \in ParseFor(os, d.options)}
      [] SetupMode(d) = "ParseWith" -> {SetupCmd(d, r) : r \in DaxParseWith(os, d.optCfgs)}
      [] OTHER                      -> {SetupCmd(d, r) : r \in DaxParse(os)}

\* The path of the program.
AppPath == <<"/", "p", "/", "a", "p", "p">>

\* The argument lists after the path of the program.
DaxArgLists ==
    { <<>>,
      << <<"-", "a">> >>,
      << <<"-", "a">>, <<"x">> >>,
      << <<"-", "-", "b", "=", "y">>, <<"x">> >>,
      << <<"-", "b">>, <<"x">>, <<"-", "a">> >>,
      << <<"-", "c", "=", "y">>, <<"-", "c", "=", "x">> >>,
      << <<"x">>, <<"-", "@">> >>,
      << <<"-", "a", "=", "x">>, <<"-", "-", "b", "=", "y">> >> }

\* The DaxSrc values the three constructors make.
NewDaxSrcs ==
    {NewDaxSrc}
    \cup {NewDaxSrcWithOptCfgs(cfgs) : cfgs \in {NoCfgs, FlagCfgs, SingleCfgs, AnyCfgs}}
    \cup {NewDaxSrcForOptions(o) : o \in OptionValues}

InitDax ==
    /\ args = <<>>
    /\ takeParams = {}
    /\ idx = 0
    /\ isNonOpt = FALSE
    /\ prevOptTakingParams = EmptyStr
    /\ optParams = EmptyMap
    /\ cmdParams = <<>>
    /\ pc = "dax"
    /\ ret = NoReturn
    /\ optCfgs = <<>>
    /\ osArgs \in {<<AppPath>> \o l : l \in DaxArgLists}
    /\ ds \in NewDaxSrcs
    /\ conns = 0
    /\ call = Call("New", 0, Nil, Ok, Nil)
    /\ held = NoSlice

\* ds.Setup(ag)
Setup ==
    /\ \E r \in SetupReturns(ds, osArgs) :
            /\ ds' = r.ds
            /\ call' = Call("Setup", 0, Nil, r.err, Nil)
    /\ UNCHANGED <<osArgs, conns>>
    /\ UNCHANGED <<parseVars, held>>

\* ds.Close()
DaxSrcClose ==
    /\ call' = Call("DaxSrc.Close", 0, Nil, Ok, Nil)
    /\ UNCHANGED <<osArgs, ds, conns>>
    /\ UNCHANGED <<parseVars, held>>

\* ds.CreateDaxConn(): one more DaxConn{ds: ds}.
CreateDaxConn ==
    /\ conns < MaxConns
    /\ conns' = conns + 1
    /\ call' = Call("CreateDaxConn", conns + 1, Nil, Ok, Nil)
    /\ UNCHANGED <<osArgs, ds>>
    /\ UNCHANGED <<parseVars, held>>

\* conn.Cmd(), conn.OptCfgs() and conn.Options(): the fields of conn.ds.
ConnCmd(d) == d.cmd
ConnOptCfgs(d) == d.optCfgs
ConnOptions(d) == d.options

\* conn.Options() is called.
Options(c) ==
    /\ call' = Call("Options", c, Nil, Ok, ConnOptions(ds))
    /\ UNCHANGED <<osArgs, ds, conns>>
    /\ UNCHANGED <<parseVars, held>>

\* Faulty variant of SetOptions: the DaxSrc is left as it was.
SetOptionsNowhere(c, opts) ==
    /\ call' = Call("SetOptions", c, opts, Ok, Nil)
    /\ UNCHANGED <<osArgs, ds, conns>>
    /\ UNCHANGED <<parseVars, held>>

\* conn.SetOptions(opts)
SetOptions(c, opts) ==
    /\ ds' = [ds EXCEPT !.options = opts]
    /\ call' = Call("SetOptions", c, opts, Ok, Nil)
    /\ UNCHANGED <<osArgs, conns>>
    /\ UNCHANGED <<parseVars, held>>

\* conn.Commit(ag), conn.IsCommitted(), conn.Rollback(ag), conn.ForceBack(ag)
\* and conn.Close(): nothing is done; IsCommitted returns true.
Commit(c) ==
    /\ call' = Call("Commit", c, Nil, Ok, Nil)
    /\ UNCHANGED <<osArgs, ds, conns>>
    /\ UNCHANGED <<parseVars, held>>

IsCommitted(c) ==
    /\ call' = Call("IsCommitted", c, Nil, Ok, "true")
    /\ UNCHANGED <<osArgs, ds, conns>>
    /\ UNCHANGED <<parseVars, held>>

\* Faulty variant of Rollback: the parse result is given up.
RollbackDiscards(c) ==
    /\ ds' = [ds EXCEPT !.cmd = ZeroCmd]
    /\ call' = Call("Rollback", c, Nil, Ok, Nil)
    /\ UNCHANGED <<osArgs, conns>>
    /\ UNCHANGED <<parseVars, held>>

Rollback(c) ==
    /\ call' = Call("Rollback", c, Nil, Ok, Nil)
    /\ UNCHANGED <<osArgs, ds, conns>>
    /\ UNCHANGED <<parseVars, held>>

ForceBack(c) ==
    /\ call' = Call("ForceBack", c, Nil, Ok, Nil)
    /\ UNCHANGED <<osArgs, ds, conns>>
    /\ UNCHANGED <<parseVars, held>>

Close(c) ==
    /\ call' = Call("Close", c, Nil, Ok, Nil)
    /\ UNCHANGED <<osArgs, ds, conns>>
    /\ UNCHANGED <<parseVars, held>>

NextDax ==
    \/ Setup
    \/ DaxSrcClose
    \/ CreateDaxConn
    \/ \E c \in 1..conns : Options(c)
    \/ \E c \in 1..conns, opts \in OptionValues : SetOptions(c, opts)
    \/ \E c \in 1..conns : Commit(c)
    \/ \E c \in 1..conns : IsCommitted(c)
    \/ \E c \in 1..conns : Rollback(c)
    \/ \E c \in 1..conns : ForceBack(c)
    \/ \E c \in 1..conns : Close(c)

SpecDax == InitDax /\ [][NextDax]_vars

----------------------------------------------------------------------------
(* The Args a parse has returned, in the hands of a caller.  OptParams and *)
(* CmdParams return the slice the Args holds, not a copy of it: a write to *)
(* an element through the returned slice is a write to the array of the    *)
(* Args.  An append by the caller writes past the length the Args sees, or *)
(* moves the caller's slice to an array of its own, as the capacity has it.*)

\* Longest slice in the hands of the caller.
MaxHeld == 3

\* The option names the caller asks for.
AskedOpts == {<<"a">>, <<"b">>}

\* The value the caller writes.
Written == <<"z">>

\* func (a Args) OptParams(opt): return a.optParams[opt].  The nil slice of
\* a missing key has no array.
SliceOfOptParams(a, opt) == Slice("opt", opt, OptParams(a, opt), HasOpt(a, opt))

\* func (a Args) CmdParams(): return a.cmdParams.
SliceOfCmdParams(a) == Slice("cmd", EmptyStr, CmdParams(a), TRUE)

\* s[i] = v through a slice: the Args whose array the slice shares sees the
\* write at the positions within its own length.
WriteThrough(a, s, i, v) ==
    IF ~s.aliased THEN a
    ELSE IF s.from = "opt" /\ i <= Len(OptParams(a, s.opt))
    THEN [a EXCEPT !.optParams[s.opt][i] = v]
    ELSE IF s.from = "cmd" /\ i <= Len(a.cmdParams)
    THEN [a EXCEPT !.cmdParams[i] = v]
    ELSE a

\* The argument lists whose Args the caller gets.
ArgsInputs == CoreLists(MaxArgs - 1)

InitArgs ==
    /\ args \in ArgsInputs
    /\ takeParams = {}
    /\ idx = Len(args)
    /\ isNonOpt = FALSE
    /\ prevOptTakingParams = EmptyStr
    /\ optParams = EmptyMap
    /\ cmdParams = <<>>
    /\ pc = "done"
    /\ ret = Parse(args, {})
    /\ optCfgs = <<>>
    /\ osArgs = <<>>
    /\ ds = ZeroDaxSrc
    /\ conns = 0
    /\ call = Call("Parse", 0, EmptyStr, ret.err, <<>>)
    /\ held = NoSlice

\* What the caller's calls leave alone.
ArgsFrame == UNCHANGED <<parseVarsButRet, osArgs, ds, conns>>

\* args.HasOpt(opt)
CallHasOpt(opt) ==
    /\ call' = Call("HasOpt", 0, opt, Ok, HasOpt(ret.args, opt))
    /\ UNCHANGED <<ret, held>>
    /\ ArgsFrame

\* args.OptParam(opt)
CallOptParam(opt) ==
    /\ call' = Call("OptParam", 0, opt, Ok, OptParam(ret.args, opt))
    /\ UNCHANGED <<ret, held>>
    /\ ArgsFrame

\* s := args.OptParams(opt)
CallOptParams(opt) ==
    /\ held' = SliceOfOptParams(ret.args, opt)
    /\ call' = Call("OptParams", 0, opt, Ok, held'.elems)
    /\ UNCHANGED ret
    /\ ArgsFrame

\* s := args.CmdParams()
CallCmdParams ==
    /\ held' = SliceOfCmdParams(ret.args)
    /\ call' = Call("CmdParams", 0, EmptyStr, Ok, held'.elems)
    /\ UNCHANGED ret
    /\ ArgsFrame

\* s[i] = Written, by the caller.
HeldOverwrite(i) ==
    /\ held.from # "none" /\ i \in 1..Len(held.elems)
    /\ held' = [held EXCEPT !.elems[i] = Written]
    /\ ret' = [ret EXCEPT !.args = WriteThrough(ret.args, held, i, Written)]
    /\ call' = Call("overwrite", i, held.opt, Ok, held'.elems)
    /\ ArgsFrame

\* s = append(s, Written), by the caller: in place when the capacity has
\* room, else in a new array that the Args does not share.
HeldAppend ==
    /\ held.from # "none" /\ Len(held.elems) < MaxHeld
    /\ \E inPlace \in BOOLEAN :
            held' = [held EXCEPT !.elems = Append(@, Written),
                                 !.aliased = @ /\ inPlace]
    /\ call' = Call("append", 0, held.opt, Ok, held'.elems)
    /\ UNCHANGED ret
    /\ ArgsFrame

NextArgs ==
    \/ \E opt \in AskedOpts : CallHasOpt(opt)
    \/ \E opt \in AskedOpts : CallOptParam(opt)
    \/ \E opt \in AskedOpts : CallOptParams(opt)
    \/ CallCmdParams
    \/ \E i \in 1..MaxHeld : HeldOverwrite(i)
    \/ HeldAppend

SpecArgs == InitArgs /\ [][NextArgs]_vars

----------------------------------------------------------------------------------------------------------------------------------------
(* Vocabulary of the properties.  The syntax of a token is stated here on  *)
(* its own, apart from the scans above.                                    *)

Done == pc = "done"

\* Parse is called with _false.
ZeroCfg == takeParams = {}

AsciiLetter ==
    {"a","b","c","d","e","f","g","h","i","j","k","l","m","n","o","p","q","r",
     "s","t","u","v","w","x","y","z","A","B","C","D","E","F","G","H","I","J",
     "K","L","M","N","O","P","Q","R","S","T","U","V","W","X","Y","Z"}

AsciiDigit == {"0","1","2","3","4","5","6","7","8","9"}

\* The token starts with '-'.
Dashed(t) == Len(t) >= 1 /\ t[1] = "-"

\* The token has the long-option prefix and is not the terminator.
LongForm(t) == Len(t) >= 3 /\ t[1] = "-" /\ t[2] = "-"

\* The token has the short-option prefix only.
ShortForm(t) == Len(t) >= 1 /\ t[1] = "-" /\ (Len(t) >= 2 => t[2] # "-")

\* What follows the prefix of a long or short option.
Remainder(t) == IF LongForm(t) THEN SubSeq(t, 3, Len(t)) ELSE SubSeq(t, 2, Len(t))

\* The position in s of the first '=' that is not in first position, Len(s) + 1
\* when there is none.
EqPos(s) ==
    LET eqs == {j \in 2..Len(s) : s[j] = "="}
    IN  IF eqs = {} THEN Len(s) + 1 ELSE CHOOSE j \in eqs : \A k \in eqs : j <= k

\* The name part of a remainder (up to the '='), whether it carries an inline
\* value, and the value.
NamePart(s) == SubSeq(s, 1, EqPos(s) - 1)
HasInline(s) == EqPos(s) <= Len(s)
InlineValue(s) == SubSeq(s, EqPos(s) + 1, Len(s))

\* A valid long-option name: a letter, then letters, digits and hyphens.
ValidLongName(n) ==
    /\ Len(n) >= 1
    /\ n[1] \in AsciiLetter
    /\ \A j \in 2..Len(n) : n[j] \in AsciiLetter \cup AsciiDigit \cup {"-"}

\* A valid short-option cluster: letters only (none is valid too: "-").
ValidCluster(n) == \A j \in 1..Len(n) : n[j] \in AsciiLetter

\* The token is a syntactically valid option.
ValidOption(t) ==
    IF LongForm(t) THEN ValidLongName(NamePart(Remainder(t)))
    ELSE ShortForm(t) /\ ValidCluster(NamePart(Remainder(t)))

\* The position of the first terminator of a token list, Len + 1 if none.
TerminatorPos(tokens) ==
    LET ts == {k \in 1..Len(tokens) : tokens[k] = <<"-", "-">>}
    IN  IF ts = {} THEN Len(tokens) + 1 ELSE CHOOSE k \in ts : \A j \in ts : k <= j

\* The tokens of a list that do not start with '-', in order.
RECURSIVE BareTokens(_)
BareTokens(tokens) ==
    IF tokens = <<>> THEN <<>>
    ELSE (IF Dashed(Head(tokens)) THEN <<>> ELSE <<Head(tokens)>>)
         \o BareTokens(Tail(tokens))

\* The run agrees with Parse computed on the whole token list.
ReturnIsParse == Done => ret = Parse(args, takeParams)

----------------------------------------------------------------------------
(* C1. Terminator law: when the tokens X before the first "--" parse       *)
(* without error, the parse of X ++ <<"--">> ++ Y succeeds, its command    *)
(* parameters are those of X followed by every token of Y as written and   *)
(* in order, its options and their values are exactly those of X, and the  *)
(* "--" itself is in neither (whatever takeParams is, also when an option  *)
(* of X is still awaiting its parameter).                                  *)
C1_TerminatorLaw ==
    (Done /\ TerminatorPos(args) <= Len(args)) =>
        LET k  == TerminatorPos(args)
            X  == SubSeq(args, 1, k - 1)
            Y  == SubSeq(args, k + 1, Len(args))
            px == Parse(X, takeParams)
        IN  px.err = Ok =>
                /\ ret.err = Ok
                /\ CmdParams(ret.args) = CmdParams(px.args) \o Y
                /\ Len(CmdParams(ret.args)) = Len(CmdParams(px.args)) + Len(Y)
                /\ ret.args.optParams = px.args.optParams

\* C1, witness: A successful parse of <<-a, --, t>> where "a" takes a parameter and t looks
\* like an option.
C1_Witness ==
    /\ Done /\ ret.err = Ok
    /\ Len(args) = 3 /\ args[1] = <<"-", "a">> /\ args[2] = <<"-", "-">>
    /\ Dashed(args[3]) /\ ValidOption(args[3]) /\ Len(args[3]) >= 2
    /\ takeParams = {<<"a">>}
    /\ CmdParams(ret.args) = <<args[3]>>

----------------------------------------------------------------------------
(* C4. When no token begins with '-', the parse succeeds, the command      *)
(* parameters are the argument list itself (every token, same order,       *)
(* duplicates kept) and no option is present.                              *)
C4_BareTokensAreCmdParams ==
    (Done /\ \A k \in 1..Len(args) : ~Dashed(args[k])) =>
        /\ ret.err = Ok
        /\ CmdParams(ret.args) = args
        /\ DOMAIN ret.args.optParams = {}
        /\ \A o \in Tokens : ~HasOpt(ret.args, o)

\* C4, witness: Three bare tokens, two of them equal, the third different.
C4_Witness ==
    /\ Done
    /\ Len(args) = 3 /\ \A k \in 1..3 : ~Dashed(args[k])
    /\ args[1] = args[2] /\ args[3] # args[1]
    /\ CmdParams(ret.args) = args

----------------------------------------------------------------------------
(* C8. Whenever Parse returns an error, the Args it returns is the zero    *)
(* value: no option is present, OptParam is "" and OptParams is empty for  *)
(* every name (those the scan had registered included), and CmdParams is   *)
(* empty.                                                                  *)
C8_ErrorReturnsEmptyArgs ==
    (Done /\ ret.err # Ok) =>
        /\ DOMAIN ret.args.optParams = {}
        /\ \A o \in DOMAIN optParams \cup Tokens :
              /\ ~HasOpt(ret.args, o)
              /\ OptParam(ret.args, o) = EmptyStr
              /\ OptParams(ret.args, o) = <<>>
        /\ CmdParams(ret.args) = <<>>

\* C8, witness: An error at the second character of a cluster whose first character was
\* registered, after a command parameter and an option with a value.
C8_Witness ==
    /\ Done /\ ret.err # Ok
    /\ Len(cmdParams) > 0
    /\ \E o \in DOMAIN optParams : Len(optParams[o]) > 0
    /\ ShortForm(args[idx]) /\ Len(args[idx]) = 3
    /\ args[idx][2] = "b" /\ <<"b">> \in DOMAIN optParams
    /\ ret.err = InvalidOption(<<args[idx][3]>>)

----------------------------------------------------------------------------
(* C2. Zero-configuration parsing: a token --name=value with a valid name, *)
(* seen before any terminator, registers name, and its value (what follows *)
(* the first '=', as written, possibly empty, possibly holding '=') is     *)
(* appended to the values of name: it comes right after the values the     *)
(* earlier tokens gave to name.  When it is the first value of name,       *)
(* OptParam(name) is that value.                                           *)

\* The token gives an inline value to the option o (zero-configuration).
GivesValueTo(t, o) ==
    /\ Dashed(t) /\ t # <<"-", "-">>
    /\ HasInline(Remainder(t))
    /\ IF LongForm(t) THEN NamePart(Remainder(t)) = o
       ELSE <<Remainder(t)[EqPos(Remainder(t)) - 1]>> = o

\* C2: after a successful zero-configuration parse, every valid --name=value
\* before the terminator has left name present, with value at the position
\* that follows the values earlier tokens gave to name.
C2_LongInlineValue ==
    (Done /\ ZeroCfg /\ ret.err = Ok) =>
        \A k \in 1..(TerminatorPos(args) - 1) :
            LET rest == Remainder(args[k])
                name == NamePart(rest)
                n    == Cardinality({j \in 1..(k - 1) : GivesValueTo(args[j], name)})
            IN  (LongForm(args[k]) /\ HasInline(rest) /\ ValidLongName(name)) =>
                    /\ HasOpt(ret.args, name)
                    /\ Len(OptParams(ret.args, name)) > n
                    /\ OptParams(ret.args, name)[n + 1] = InlineValue(rest)
                    /\ (n = 0 => OptParam(ret.args, name) = InlineValue(rest))

\* C2, witness: --a== after -a=x: "a" has the values "x" and "=".
C2_Witness ==
    /\ Done /\ ZeroCfg /\ ret.err = Ok
    /\ Len(args) = 2
    /\ args[1] = <<"-", "a", "=", "x">>
    /\ args[2] = <<"-", "-", "a", "=", "=">>
    /\ OptParams(ret.args, <<"a">>) = << <<"x">>, <<"=">> >>

----------------------------------------------------------------------------
(* C3. Short-cluster equivalence.  A cluster token is -c1..cn or           *)
(* -c1..cn=value with n >= 2 letters; its expansion is -c1, ..., -cn or    *)
(* -c1, ..., -cn=value.                                                    *)

IsCluster(t) ==
    /\ ShortForm(t)
    /\ Len(NamePart(Remainder(t))) >= 2
    /\ ValidCluster(NamePart(Remainder(t)))

\* The n tokens a cluster token stands for.
Expansion(t) ==
    LET rest == Remainder(t)
        n    == Len(NamePart(rest))
    IN  [j \in 1..n |->
            IF j < n THEN <<"-", rest[j]>>
            ELSE <<"-", rest[n]>> \o SubSeq(rest, n + 1, Len(rest))]

\* The loop state of parseArgs before token k of the argument list.
StateBefore(k) == ParseArgsFrom(InitialScan, SubSeq(args, 1, k - 1), takeParams)

\* Token k is a cluster that the scan reaches in option-recognition mode: no
\* error and no terminator before it, no option awaiting it as its parameter.
ClusterRecognizedAt(k) ==
    /\ IsCluster(args[k])
    /\ StateBefore(k).err = Ok
    /\ ~StateBefore(k).isNonOpt
    /\ Len(StateBefore(k).prev) = 0

\* The argument list with the expansion of token k in its place.
WithExpansion(k) ==
    SubSeq(args, 1, k - 1) \o Expansion(args[k]) \o SubSeq(args, k + 1, Len(args))

\* C3 as stated: for every recognized cluster, whatever the options take, the
\* parse returns the same Args and the same error as the parse with the
\* expansion in the cluster's place.
C3_ClusterEqualsSeparate ==
    Done => \A k \in 1..Len(args) :
                ClusterRecognizedAt(k) => ret = Parse(WithExpansion(k), takeParams)

\* No character of the cluster but the last takes a parameter.
OnlyLastMayTake(t) ==
    LET name == NamePart(Remainder(t))
    IN  \A j \in 1..(Len(name) - 1) : <<name[j]>> \notin takeParams

\* C3 as amended: the equivalence holds when none of c1..c(n-1) takes a
\* parameter (always so in zero-configuration parsing).
C3_ClusterEqualsSeparateUnlessTaking ==
    Done => \A k \in 1..Len(args) :
                (ClusterRecognizedAt(k) /\ OnlyLastMayTake(args[k])) =>
                    ret = Parse(WithExpansion(k), takeParams)

\* C3, witness: -ba after an option with a value, "a" taking the token that follows: the
\* parse succeeds, b is present without value, a has both values.
C3_Witness ==
    /\ Done /\ ret.err = Ok
    /\ takeParams = {<<"a">>}
    /\ Len(args) = 3
    /\ args[1] = <<"-", "a", "=", "x">>
    /\ args[2] = <<"-", "b", "a">>
    /\ ClusterRecognizedAt(2) /\ OnlyLastMayTake(args[2])
    /\ OptParams(ret.args, <<"a">>) = << <<"x">>, args[3] >>
    /\ HasOpt(ret.args, <<"b">>) /\ OptParams(ret.args, <<"b">>) = <<>>

----------------------------------------------------------------------------
(* Steps of the scan, for the properties of one iteration.                 *)

\* An iteration is about to run.
InLoop == pc = "scan" /\ idx < Len(args)

\* The token of the iteration is looked at as a possible option: no terminator
\* was seen and no option awaits it as its parameter.
RecognitionMode == InLoop /\ ~isNonOpt /\ Len(prevOptTakingParams) = 0

\* The values of o collected so far, none if o is not registered.
Collected(o) == IF o \in DOMAIN optParams THEN optParams[o] ELSE <<>>

\* s is t with values appended at its end.
Extends(s, t) == Len(s) >= Len(t) /\ SubSeq(s, 1, Len(t)) = t

\* The last character of a non-empty string, as a string.
LastChar(s) == <<s[Len(s)]>>

----------------------------------------------------------------------------
(* C5. An option o that takes a parameter, recognized by the previous      *)
(* iteration as a long option or as the last character of a cluster, with  *)
(* no inline value and no terminator seen: the token of this iteration,    *)
(* whatever its text, is appended to o's values, is not added to the       *)
(* command parameters, registers nothing else, does not end the option     *)
(* recognition, raises no error, and o awaits nothing more.                *)

AwaitsParam ==
    /\ InLoop /\ idx >= 1 /\ ~isNonOpt
    /\ Len(prevOptTakingParams) > 0
    /\ prevOptTakingParams \in takeParams
    /\ \/ args[idx] = <<"-", "-">> \o prevOptTakingParams
       \/ /\ ShortForm(args[idx]) /\ Len(args[idx]) >= 2
          /\ ~HasInline(Remainder(args[idx]))
          /\ LastChar(args[idx]) = prevOptTakingParams

TokenConsumedAsParam ==
    /\ optParams' = [optParams EXCEPT ![prevOptTakingParams] = @ \o <<args[idx + 1]>>]
    /\ cmdParams' = cmdParams
    /\ prevOptTakingParams' = EmptyStr
    /\ isNonOpt' = FALSE
    /\ pc' = "scan"
    /\ idx' = idx + 1

\* C5: every iteration that starts with an option awaiting its parameter
\* consumes its token as that parameter.
C5_PendingOptionTakesNextToken == [][AwaitsParam => TokenConsumedAsParam]_vars

\* What parseArgs does (C5 for every token but "--"): the test of the
\* terminator comes before the test of the awaiting option.
C5_ExceptTerminator ==
    [][(AwaitsParam /\ args[idx + 1] # <<"-", "-">>) => TokenConsumedAsParam]_vars

----------------------------------------------------------------------------
(* C6. A token starting with "--", other than the terminator, seen in      *)
(* option-recognition mode: when the first character after the prefix is   *)
(* a letter and every following character up to the first '=' or the end   *)
(* is a letter, a digit or a hyphen, the iteration raises no error         *)
(* (whatever follows the '='); otherwise Parse fails with InvalidOption    *)
(* whose Option is everything after the "--", the =value part included.    *)
C6_LongOptionValidation ==
    [][(RecognitionMode /\ LongForm(args[idx + 1])) =>
          IF ValidLongName(NamePart(Remainder(args[idx + 1])))
          THEN pc' = "scan" /\ ret' = ret
          ELSE pc' = "done" /\ ret'.err = InvalidOption(Remainder(args[idx + 1]))]_vars

\* C6, witness: --a@== after an option: InvalidOption names "a@==".
C6_Witness ==
    /\ Done /\ idx = 2
    /\ args[1] = <<"-", "a">>
    /\ args[2] = <<"-", "-", "a", "@", "=", "=">>
    /\ ret.err = InvalidOption(<<"a", "@", "=", "=">>)

----------------------------------------------------------------------------
(* C7. A token starting with a single '-', seen in option-recognition      *)
(* mode: when every character of the cluster (the characters before an '=' *)
(* that is not in first position) is a letter, the iteration raises no     *)
(* error; otherwise Parse fails with InvalidOption whose Option is the     *)
(* first character of the cluster that is not a letter, alone.             *)
C7_ShortOptionValidation ==
    [][(RecognitionMode /\ ShortForm(args[idx + 1])) =>
          LET cluster == NamePart(Remainder(args[idx + 1]))
              bad == {j \in 1..Len(cluster) : cluster[j] \notin AsciiLetter}
          IN  IF bad = {}
              THEN pc' = "scan" /\ ret' = ret
              ELSE /\ pc' = "done"
                   /\ ret'.err =
                        InvalidOption(<<cluster[CHOOSE j \in bad : \A k \in bad : j <= k]>>)]_vars

\* C7, witness: After a command parameter, -=@ fails naming "=".
C7_Witness ==
    /\ Done /\ idx = 2
    /\ args[1] = <<"a">>
    /\ args[2] = <<"-", "=", "@">>
    /\ ret.err = InvalidOption(<<"=">>)

----------------------------------------------------------------------------
(* C9. Recognizing an option registers it: an iteration that recognizes a  *)
(* valid option token makes every option the token names present, with     *)
(* its former values (none if it is new) followed by the inline value if   *)
(* the token gives it one; a token consumed as a parameter is appended to  *)
(* the values of the awaiting option; no iteration removes an option or    *)
(* changes the values it already has; and after a successful parse HasOpt, *)
(* OptParams and OptParam give what was collected (an option with no value *)
(* is present with an empty sequence and OptParam "", an option never      *)
(* recognized is absent).                                                  *)

\* The options a valid option token names.
NamedOptions(t) ==
    IF LongForm(t) THEN {NamePart(Remainder(t))}
    ELSE {<<NamePart(Remainder(t))[j]>> : j \in 1..Len(NamePart(Remainder(t)))}

\* What the token gives the option inline.
InlineGiven(t, o) ==
    IF GivesValueTo(t, o) THEN <<InlineValue(Remainder(t))>> ELSE <<>>

RegistersOptions ==
    InLoop =>
        /\ \A o \in DOMAIN optParams :
              o \in DOMAIN optParams' /\ Extends(optParams'[o], optParams[o])
        /\ (RecognitionMode /\ Dashed(args[idx + 1]) /\ args[idx + 1] # <<"-", "-">>
              /\ ValidOption(args[idx + 1])) =>
              /\ DOMAIN optParams' = DOMAIN optParams \cup NamedOptions(args[idx + 1])
              /\ \A o \in NamedOptions(args[idx + 1]) :
                    optParams'[o] = Collected(o) \o InlineGiven(args[idx + 1], o)
        /\ (~isNonOpt /\ Len(prevOptTakingParams) > 0 /\ args[idx + 1] # <<"-", "-">>) =>
              /\ prevOptTakingParams \in DOMAIN optParams'
              /\ optParams'[prevOptTakingParams] =
                    Collected(prevOptTakingParams) \o <<args[idx + 1]>>

ExposesCollected ==
    (Done /\ ret.err = Ok) =>
        /\ \A o \in DOMAIN optParams :
              /\ HasOpt(ret.args, o)
              /\ OptParams(ret.args, o) = optParams[o]
              /\ OptParam(ret.args, o) =
                    (IF optParams[o] = <<>> THEN EmptyStr ELSE optParams[o][1])
        /\ \A o \in Tokens \ DOMAIN optParams :
              ~HasOpt(ret.args, o) /\ OptParam(ret.args, o) = EmptyStr

\* C9: every iteration registers what it recognizes and only appends, and the
\* Args of a successful parse exposes what was collected.
C9_RecognitionRegisters == []ExposesCollected /\ [][RegistersOptions]_vars

\* C9, witness: -a, then -a=x, then -ba=: a has the values "x" and "", b is present with no
\* value, c is absent.
C9_Witness ==
    /\ Done /\ ret.err = Ok
    /\ args = << <<"-", "a">>, <<"-", "a", "=", "x">>, <<"-", "b", "a", "=">> >>
    /\ OptParams(ret.args, <<"a">>) = << <<"x">>, <<>> >>
    /\ HasOpt(ret.args, <<"b">>) /\ OptParams(ret.args, <<"b">>) = <<>>
    /\ OptParam(ret.args, <<"b">>) = EmptyStr
    /\ ~HasOpt(ret.args, <<"c">>)

----------------------------------------------------------------------------
(* C10. Zero-configuration parsing: no option ever awaits a parameter, so  *)
(* every token is classified on its own; Parse fails only with             *)
(* InvalidOption, and succeeds when every dashed token before the          *)
(* terminator is a syntactically valid option; the command parameters of   *)
(* a successful parse are the tokens before the terminator that do not     *)
(* start with '-', then the tokens after it; and the usage example gives   *)
(* foo-bar=[A], a=[], baz=[], b=[], c=[3] and the command parameter qux.   *)

UsageResult ==
    [args |->
        [optParams |->
            (<<"f","o","o","-","b","a","r">> :> << <<"A">> >>)
            @@ (<<"a">> :> <<>>) @@ (<<"b","a","z">> :> <<>>)
            @@ (<<"b">> :> <<>>) @@ (<<"c">> :> << <<"3">> >>),
         cmdParams |-> << <<"q","u","x">> >>],
     err |-> Ok]

\* C10: under _false, nothing awaits a parameter, only InvalidOption is
\* returned and only for an invalid option, the command parameters are the
\* tokens classified as such one by one, and the usage example parses as
\* documented.
C10_ZeroCfgAcceptsValidOptions ==
    ZeroCfg =>
        /\ Len(prevOptTakingParams) = 0
        /\ Done =>
              LET tp == TerminatorPos(args)
              IN  /\ ret.err.kind \in {"Ok", "InvalidOption"}
                  /\ (\A k \in 1..(tp - 1) : Dashed(args[k]) => ValidOption(args[k]))
                        => ret.err = Ok
                  /\ ret.err = Ok =>
                        CmdParams(ret.args) =
                            BareTokens(SubSeq(args, 1, tp - 1))
                                \o SubSeq(args, tp + 1, Len(args))
                  /\ args = UsageArgs => ret = UsageResult

\* C10, witness: The usage example, parsed.
C10_Witness ==
    /\ Done /\ ZeroCfg /\ args = UsageArgs
    /\ ret.err = Ok
    /\ OptParam(ret.args, <<"c">>) = <<"3">>
    /\ CmdParams(ret.args) = << <<"q","u","x">> >>

----------------------------------------------------------------------------
(* Vocabulary of the properties of ParseWith.                              *)

\* The positions of the configurations that name an option.
NamedCfgs == {i \in 1..Len(optCfgs) : optCfgs[i].Name # <<"*">>}

\* The option o, as written in a token, is the name or an alias of the
\* configuration at position i.
StandsFor(o, i) == o = optCfgs[i].Name \/ o \in optCfgs[i].Aliases

\* A configuration named "*" is present.
HasWildcard == \E i \in 1..Len(optCfgs) : optCfgs[i].Name = <<"*">>

\* The token is a syntactically valid option, not the terminator.
OptionToken(t) == Dashed(t) /\ t # <<"-", "-">> /\ ValidOption(t)

\* The option to which a valid option token gives its inline value, or which
\* awaits the next token: the long name, the last character of a cluster.
ValueOption(t) ==
    IF LongForm(t) THEN NamePart(Remainder(t))
    ELSE IF Len(NamePart(Remainder(t))) = 0 THEN EmptyStr
    ELSE LastChar(NamePart(Remainder(t)))

\* The pass over the configurations found no error.
CfgsAccepted == \A i \in 1..Len(optCfgs) : optCfgs[i].IsArray => optCfgs[i].HasParam

----------------------------------------------------------------------------
(* C11. Configured parse, aliases: a value given through the name or an    *)
(* alias of a configuration, inline in a long or short option or as the    *)
(* token that follows, is appended to the values collected under the       *)
(* configuration's Name, after those given before through the name or any  *)
(* alias; no alias is ever a key of what is collected nor of the result,   *)
(* and the result of a successful parse gives the values in that order.    *)

NoAliasKey ==
    \A i \in NamedCfgs : \A al \in optCfgs[i].Aliases :
        /\ al \notin DOMAIN optParams
        /\ Done => (~HasOpt(ret.args, al) /\ OptParams(ret.args, al) = <<>>)
        /\ (Done /\ ret.err = Ok /\ optCfgs[i].Name \in DOMAIN optParams) =>
              OptParams(ret.args, optCfgs[i].Name) = optParams[optCfgs[i].Name]

AliasValuesAppend ==
    InLoop => \A i \in NamedCfgs :
        /\ (RecognitionMode /\ OptionToken(args[idx + 1])
              /\ HasInline(Remainder(args[idx + 1]))
              /\ StandsFor(ValueOption(args[idx + 1]), i) /\ pc' = "scan") =>
              /\ optCfgs[i].Name \in DOMAIN optParams'
              /\ optParams'[optCfgs[i].Name] =
                    Collected(optCfgs[i].Name) \o <<InlineValue(Remainder(args[idx + 1]))>>
        /\ (~isNonOpt /\ Len(prevOptTakingParams) > 0 /\ args[idx + 1] # <<"-", "-">>
              /\ StandsFor(prevOptTakingParams, i)) =>
              /\ pc' = "scan"
              /\ optCfgs[i].Name \in DOMAIN optParams'
              /\ optParams'[optCfgs[i].Name] = Collected(optCfgs[i].Name) \o <<args[idx + 1]>>
              /\ cmdParams' = cmdParams

\* C11: values given through an alias or the name are collected under the
\* name, in input order, and an alias is never a key.
C11_AliasesCanonicalized == []NoAliasKey /\ [][AliasValuesAppend]_vars

\* C11, witness: "b" with the alias "a": -a=x, --b=y, -a=x give b the three
\* values in that order, and a is absent.
C11_Witness ==
    /\ Done /\ ret.err = Ok /\ optCfgs = ArrayCfgs
    /\ Len(args) = 3 /\ args[1] = <<"-", "a", "=", "x">>
    /\ args[2] = <<"-", "-", "b", "=", "y">> /\ args[3] = <<"-", "a", "=", "x">>
    /\ OptParams(ret.args, <<"b">>) = << <<"x">>, <<"y">>, <<"x">> >>
    /\ ~HasOpt(ret.args, <<"a">>)

\* C11, the other case reached: the alias awaits the token that follows, which
\* is taken as written.
C11_PendingAlias ==
    /\ Done /\ ret.err = Ok /\ optCfgs = ArrayCfgs
    /\ args = << <<"-", "a">>, <<"-", "-", "b", "=", "y">>, <<"-", "a", "=", "x">> >>
    /\ OptParams(ret.args, <<"b">>) = << <<"-", "-", "b", "=", "y">>, <<"x">> >>
    /\ ~HasOpt(ret.args, <<"a">>)

----------------------------------------------------------------------------
(* C12. Configured parse with a configuration named "*": an option that is *)
(* neither the name nor an alias of a configuration raises no error when   *)
(* it is recognized, is collected under its name as written and never      *)
(* under "*", awaits the token that follows exactly when "*" has a         *)
(* parameter, and is present under its name in the result of a successful  *)
(* parse, with values that obey HasParam and IsArray of "*".               *)

\* The option, as written, is neither the name nor an alias of a configuration.
Unmatched(o) == \A i \in NamedCfgs : ~StandsFor(o, i)

\* The configuration named "*".
Wildcard == optCfgs[CHOOSE i \in 1..Len(optCfgs) : optCfgs[i].Name = <<"*">>]

WildcardKeepsName ==
    HasWildcard =>
        /\ <<"*">> \notin DOMAIN optParams
        /\ Done =>
              /\ ~HasOpt(ret.args, <<"*">>)
              /\ ret.err.kind # "UnconfiguredOption"
              /\ ret.err = Ok =>
                    \A o \in DOMAIN optParams :
                        Unmatched(o) =>
                            /\ HasOpt(ret.args, o)
                            /\ OptParams(ret.args, o) = optParams[o]
                            /\ Wildcard.HasParam => Len(optParams[o]) >= 1
                            /\ ~Wildcard.HasParam => Len(optParams[o]) = 0
                            /\ ~Wildcard.IsArray => Len(optParams[o]) <= 1

WildcardAccepts ==
    (InLoop /\ HasWildcard /\ RecognitionMode /\ OptionToken(args[idx + 1])) =>
        /\ pc' = "scan"
        /\ \A o \in NamedOptions(args[idx + 1]) :
              Unmatched(o) =>
                  /\ o \in DOMAIN optParams'
                  /\ optParams'[o] = Collected(o) \o InlineGiven(args[idx + 1], o)
        /\ (Unmatched(ValueOption(args[idx + 1])) /\ ValueOption(args[idx + 1]) # EmptyStr) =>
              prevOptTakingParams' =
                  (IF Wildcard.HasParam /\ ~HasInline(Remainder(args[idx + 1]))
                   THEN ValueOption(args[idx + 1]) ELSE EmptyStr)

\* The result of the usage example of ParseWith.
UsageWithResult ==
    [args |->
        [optParams |->
            (<<"f","o","o","-","b","a","r">> :> <<>>)
            @@ (<<"b","a","z">> :> << <<"1">>, <<"2">> >>)
            @@ (<<"X">> :> <<>>),
         cmdParams |-> << <<"q","u","x">>, <<"q","u","u","x">> >>],
     err |-> Ok]

UsageWithParses == (Done /\ args = UsageWithArgs) => ret = UsageWithResult

\* C12: with "*" configured, an option no configuration matches is accepted
\* under the arity of "*" and recorded under its own name, never under "*".
C12_WildcardKeepsObservedName ==
    [](WildcardKeepsName /\ UsageWithParses) /\ [][WildcardAccepts]_vars

\* C12, witness: the usage example: -X is present under "X" through "*".
C12_Witness ==
    /\ Done /\ ret.err = Ok /\ args = UsageWithArgs /\ optCfgs = UsageCfgs
    /\ HasOpt(ret.args, <<"X">>) /\ ~HasOpt(ret.args, <<"*">>)
    /\ OptParams(ret.args, <<"b","a","z">>) = << <<"1">>, <<"2">> >>

\* C12, the other case reached: "*" takes a parameter, and the option no
\* configuration matches takes the token that follows.
C12_WildcardTakesParam ==
    /\ Done /\ ret.err = Ok /\ optCfgs = AnyParamCfgs
    /\ Len(args) = 2 /\ args[1] = <<"-", "-", "a", "b">> /\ args[2] = <<"-", "a">>
    /\ OptParams(ret.args, <<"a", "b">>) = << <<"-", "a">> >>
    /\ CmdParams(ret.args) = <<>>

----------------------------------------------------------------------------
(* C13. Configured parse with configurations and none named "*": a valid   *)
(* option token that names an option which is neither the name nor an      *)
(* alias of a configuration makes ParseWith return, at that token, the     *)
(* error UnconfiguredOption with the name of the first such option of the  *)
(* token, beside an empty Args.                                            *)

\* The options a valid option token names, in the order it names them.
NamedSeq(t) ==
    IF LongForm(t) THEN <<NamePart(Remainder(t))>>
    ELSE [j \in 1..Len(NamePart(Remainder(t))) |-> <<NamePart(Remainder(t))[j]>>]

\* The position in NamedSeq(t) of the first option no configuration matches.
FirstUnmatched(t) ==
    LET un == {j \in 1..Len(NamedSeq(t)) : Unmatched(NamedSeq(t)[j])}
    IN  CHOOSE j \in un : \A k \in un : j <= k

\* The Args is the zero value, seen through its accessors.
EmptyResult(a) ==
    /\ DOMAIN a.optParams = {}
    /\ CmdParams(a) = <<>>
    /\ \A o \in DOMAIN optParams \cup CfgNames :
          ~HasOpt(a, o) /\ OptParam(a, o) = EmptyStr /\ OptParams(a, o) = <<>>

\* C13: without "*", the first option of a valid token that no configuration
\* matches ends the parse with UnconfiguredOption and an empty result.
C13_UnconfiguredOption ==
    [][(InLoop /\ Len(optCfgs) > 0 /\ ~HasWildcard /\ RecognitionMode
          /\ OptionToken(args[idx + 1])
          /\ \E o \in NamedOptions(args[idx + 1]) : Unmatched(o)) =>
            /\ pc' = "done"
            /\ ret'.err =
                  UnconfiguredOption(NamedSeq(args[idx + 1])[FirstUnmatched(args[idx + 1])])
            /\ EmptyResult(ret'.args)]_vars

\* C13, witness: only "a" is configured: after -a and a command parameter,
\* -ab fails naming "b", and nothing is returned.
C13_Witness ==
    /\ Done /\ optCfgs = FlagCfgs /\ idx = 3
    /\ args[1] = <<"-", "a">> /\ args[2] = <<"a">>
    /\ args[3] = <<"-", "a", "b">>
    /\ ret.err = UnconfiguredOption(<<"b">>)
    /\ optParams = (<<"a">> :> <<>>) /\ cmdParams = << <<"a">> >>
    /\ ret.args = ZeroArgs

----------------------------------------------------------------------------
(* Arity of what the scan collected, by the configuration of each key.     *)

\* The key under which an option, as written, is collected.
Canon(o) ==
    IF \E i \in NamedCfgs : StandsFor(o, i)
    THEN optCfgs[CHOOSE i \in NamedCfgs : StandsFor(o, i)].Name
    ELSE o

\* The configuration of a key: the one it names, "*" for any other key.
KeyCfg(k) ==
    IF \E i \in NamedCfgs : optCfgs[i].Name = k
    THEN optCfgs[CHOOSE i \in NamedCfgs : optCfgs[i].Name = k]
    ELSE Wildcard

\* The keys collected with no value though their configuration has a
\* parameter; with a value though it has none; with more than one value
\* though it is no array.
Needy == {k \in DOMAIN optParams : KeyCfg(k).HasParam /\ Len(optParams[k]) = 0}
Overfed == {k \in DOMAIN optParams : ~KeyCfg(k).HasParam /\ Len(optParams[k]) > 0}
Repeated == {k \in DOMAIN optParams : ~KeyCfg(k).IsArray /\ Len(optParams[k]) > 1}

\* ParseWith has returned after a scan that consumed every token without
\* error.
ScanCompleted ==
    /\ Done /\ CfgsAccepted
    /\ ret.err.kind \notin {"InvalidOption", "UnconfiguredOption"}

----------------------------------------------------------------------------
(* C14. Configured parse: an option whose configuration has a parameter,   *)
(* written without inline value, awaits the token that follows; when the   *)
(* scan ends and an option with a parameter was collected with no value at *)
(* all, ParseWith fails and returns nothing, with OptionNeedsParam naming   *)
(* such an option by the Name of its configuration (when no other arity    *)
(* rule is broken as well); OptionNeedsParam is never returned for an      *)
(* option that has a value, the empty string included.                     *)

NeedsParamAtReturn ==
    /\ (ScanCompleted /\ Needy # {}) =>
          /\ ret.err # Ok
          /\ EmptyResult(ret.args)
          /\ (Overfed = {} /\ Repeated = {}) =>
                ret.err \in {OptionNeedsParam(k) : k \in Needy}
    /\ (Done /\ ret.err.kind = "OptionNeedsParam") =>
          /\ ScanCompleted
          /\ ret.err.Option \in Needy
          /\ ret.err.Option \in {optCfgs[i].Name : i \in NamedCfgs} \/ HasWildcard
    /\ (ScanCompleted /\ Needy = {}) => ret.err.kind # "OptionNeedsParam"

AwaitsWhenHasParam ==
    (InLoop /\ RecognitionMode /\ OptionToken(args[idx + 1]) /\ pc' = "scan"
        /\ ValueOption(args[idx + 1]) # EmptyStr) =>
        prevOptTakingParams' =
            (IF KeyCfg(Canon(ValueOption(args[idx + 1]))).HasParam
                  /\ ~HasInline(Remainder(args[idx + 1]))
             THEN ValueOption(args[idx + 1]) ELSE EmptyStr)

\* C14: an option with a parameter that got no value at all makes ParseWith
\* fail with OptionNeedsParam and its canonical name; an empty value counts.
C14_OptionNeedsParam == []NeedsParamAtReturn /\ [][AwaitsWhenHasParam]_vars

\* C14, witness: "b" with the alias "a" takes one parameter: -a alone, after
\* a command parameter, fails with OptionNeedsParam naming "b".
C14_Witness ==
    /\ Done /\ optCfgs = SingleCfgs
    /\ args = << <<"a">>, <<"-", "a">> >>
    /\ ret.err = OptionNeedsParam(<<"b">>)
    /\ ret.args = ZeroArgs

\* C14, the other cases reached: the empty token that follows -a, and the
\* empty inline value of --b=, are values.
C14_EmptyTokenIsValue ==
    /\ Done /\ optCfgs = SingleCfgs /\ ret.err = Ok
    /\ args = << <<"-", "a">>, <<>> >>
    /\ OptParams(ret.args, <<"b">>) = << <<>> >>

C14_EmptyInlineIsValue ==
    /\ Done /\ optCfgs = SingleCfgs /\ ret.err = Ok
    /\ args = << <<"-", "-", "b", "=">> >>
    /\ OptParams(ret.args, <<"b">>) = << <<>> >>

----------------------------------------------------------------------------
(* C15. Configured parse, an option whose configuration has no parameter:  *)
(* an inline value, the empty one included, is collected and makes         *)
(* ParseWith fail and return nothing, with OptionTakesNoParam naming the    *)
(* option (when no other arity rule is broken as well); written without    *)
(* inline value the option awaits nothing, so that a bare token that       *)
(* follows is a command parameter, and the option is present with no value *)
(* in the result of a successful parse.                                    *)

TakesNoParamAtReturn ==
    /\ (ScanCompleted /\ Overfed # {}) =>
          /\ ret.err # Ok
          /\ EmptyResult(ret.args)
          /\ (Needy = {} /\ Repeated = {}) =>
                ret.err \in {OptionTakesNoParam(k) : k \in Overfed}
    /\ (Done /\ ret.err.kind = "OptionTakesNoParam") =>
          ScanCompleted /\ ret.err.Option \in Overfed
    /\ (Done /\ ret.err = Ok) =>
          \A k \in DOMAIN optParams :
              ~KeyCfg(k).HasParam =>
                  HasOpt(ret.args, k) /\ OptParams(ret.args, k) = <<>>

NoParamNeverConsumes ==
    InLoop =>
        /\ (RecognitionMode /\ OptionToken(args[idx + 1]) /\ pc' = "scan"
              /\ ValueOption(args[idx + 1]) # EmptyStr
              /\ ~KeyCfg(Canon(ValueOption(args[idx + 1]))).HasParam) =>
              /\ prevOptTakingParams' = EmptyStr
              /\ cmdParams' = cmdParams
              /\ optParams'[Canon(ValueOption(args[idx + 1]))] =
                    Collected(Canon(ValueOption(args[idx + 1])))
                        \o InlineGiven(args[idx + 1], ValueOption(args[idx + 1]))
        /\ (RecognitionMode /\ ~Dashed(args[idx + 1])) =>
              /\ cmdParams' = cmdParams \o <<args[idx + 1]>>
              /\ optParams' = optParams
              /\ pc' = "scan"

\* C15: an inline value for an option without parameter makes ParseWith fail
\* with OptionTakesNoParam; the token after the option written without '=' is
\* not consumed by it.
C15_OptionTakesNoParam == []TakesNoParamAtReturn /\ [][NoParamNeverConsumes]_vars

\* C15, witness: "a" has no parameter: -a= fails with OptionTakesNoParam
\* naming "a", after a command parameter was collected.
C15_Witness ==
    /\ Done /\ optCfgs = FlagCfgs
    /\ args = << <<"a">>, <<"-", "a", "=">> >>
    /\ optParams = (<<"a">> :> << <<>> >>)
    /\ ret.err = OptionTakesNoParam(<<"a">>)
    /\ ret.args = ZeroArgs

\* C15, the other case reached: -a followed by a bare token succeeds, "a" is
\* present with no value and the token is a command parameter.
C15_NextTokenIsCmdParam ==
    /\ Done /\ optCfgs = FlagCfgs /\ ret.err = Ok
    /\ args = << <<"-", "a">>, <<"a">> >>
    /\ HasOpt(ret.args, <<"a">>) /\ OptParams(ret.args, <<"a">>) = <<>>
    /\ CmdParams(ret.args) = << <<"a">> >>

----------------------------------------------------------------------------
(* C16. Arity law.  Every value given to an option through the name or an  *)
(* alias of its configuration counts: it makes the values collected under  *)
(* the Name one more.  When the scan ends and an option with a parameter   *)
(* that is no array has two values or more, ParseWith fails and returns    *)
(* nothing, with OptionIsNotArray naming it by the Name (when no other     *)
(* arity rule is broken as well); OptionIsNotArray is never returned for   *)
(* an option with at most one value nor for an array.                      *)

NotArrayAtReturn ==
    /\ (ScanCompleted
          /\ \E k \in Repeated : KeyCfg(k).HasParam) =>
          /\ ret.err # Ok
          /\ EmptyResult(ret.args)
          /\ (Needy = {} /\ Overfed = {}) =>
                ret.err \in {OptionIsNotArray(k) : k \in Repeated}
    /\ (Done /\ ret.err.kind = "OptionIsNotArray") =>
          /\ ScanCompleted
          /\ ret.err.Option \in DOMAIN optParams
          /\ Len(optParams[ret.err.Option]) >= 2
          /\ ~KeyCfg(ret.err.Option).IsArray
    /\ (Done /\ ret.err = Ok) =>
          \A k \in DOMAIN optParams :
              \/ Len(optParams[k]) <= 1
              \/ KeyCfg(k).IsArray

EveryValueCounts ==
    InLoop =>
        /\ \A k \in DOMAIN optParams :
              k \in DOMAIN optParams' /\ Len(optParams'[k]) >= Len(optParams[k])
        /\ \A i \in NamedCfgs :
              /\ (RecognitionMode /\ OptionToken(args[idx + 1])
                    /\ HasInline(Remainder(args[idx + 1]))
                    /\ StandsFor(ValueOption(args[idx + 1]), i) /\ pc' = "scan") =>
                    Len(optParams'[optCfgs[i].Name]) = Len(Collected(optCfgs[i].Name)) + 1
              /\ (~isNonOpt /\ Len(prevOptTakingParams) > 0
                    /\ args[idx + 1] # <<"-", "-">>
                    /\ StandsFor(prevOptTakingParams, i)) =>
                    Len(optParams'[optCfgs[i].Name]) = Len(Collected(optCfgs[i].Name)) + 1

\* C16: an option that has a parameter and is no array makes ParseWith fail
\* with OptionIsNotArray exactly when it got a second value, through its name
\* or any alias.
C16_ArityLaw == []NotArrayAtReturn /\ [][EveryValueCounts]_vars

\* C16, witness: "b" with the alias "a" takes one parameter: -a=x then --b=y
\* fail with OptionIsNotArray naming "b".
C16_Witness ==
    /\ Done /\ optCfgs = SingleCfgs
    /\ args = << <<"-", "a", "=", "x">>, <<"-", "-", "b", "=", "y">> >>
    /\ optParams = (<<"b">> :> << <<"x">>, <<"y">> >>)
    /\ ret.err = OptionIsNotArray(<<"b">>)
    /\ ret.args = ZeroArgs

\* C16, the other case reached: the same tokens succeed when "b" is an array.
C16_ArrayAccepts ==
    /\ Done /\ optCfgs = ArrayCfgs /\ ret.err = Ok
    /\ args = << <<"-", "a", "=", "x">>, <<"-", "-", "b", "=", "y">> >>
    /\ OptParams(ret.args, <<"b">>) = << <<"x">>, <<"y">> >>

----------------------------------------------------------------------------
(* C17. A configuration that is an array and has no parameter makes        *)
(* ParseWith return ConfigIsArrayButHasNoParam with the Name of the first  *)
(* such configuration, beside an empty Args, whatever the tokens are: no   *)
(* token is scanned, nothing is collected.  No other list of               *)
(* configurations gets this error.                                         *)

\* The positions of the configurations that are arrays without parameter.
ArraysWithoutParam ==
    {i \in 1..Len(optCfgs) : optCfgs[i].IsArray /\ ~optCfgs[i].HasParam}

\* C17: an array configuration without parameter is rejected with
\* ConfigIsArrayButHasNoParam for every argument list.
C17_ConfigIsArrayButHasNoParam ==
    /\ ArraysWithoutParam # {} =>
          /\ pc \in {"cfg", "done"}
          /\ idx = 0 /\ optParams = EmptyMap /\ cmdParams = <<>>
          /\ Done =>
                /\ ret.err = ConfigIsArrayButHasNoParam(
                        optCfgs[CHOOSE i \in ArraysWithoutParam :
                                    \A j \in ArraysWithoutParam : i <= j].Name)
                /\ EmptyResult(ret.args)
    /\ (Done /\ ret.err.kind = "ConfigIsArrayButHasNoParam") => ArraysWithoutParam # {}

\* C17, witness: "b" is an array without parameter: the empty argument list
\* is rejected, naming "b".
C17_Witness ==
    /\ Done /\ optCfgs = ArrayNoParamCfgs /\ args = <<>>
    /\ ret.err = ConfigIsArrayButHasNoParam(<<"b">>)
    /\ ret.args = ZeroArgs

\* C17, the other cases reached: an argument list that does not mention "b"
\* and holds an invalid option and an option that is not configured.
C17_WhateverTheTokens ==
    /\ Done /\ optCfgs = ArrayNoParamCfgs
    /\ args = << <<"-", "a">>, <<"-", "@">>, <<"-", "a">> >>
    /\ ret.err = ConfigIsArrayButHasNoParam(<<"b">>)

----------------------------------------------------------------------------
(* C18. With no configuration at all ParseWith would return, for every     *)
(* argument list, what Parse returns: every valid option accepted under    *)
(* its own name, no token taken as a parameter, no UnconfiguredOption, no  *)
(* default value.                                                          *)

\* C18: ParseWith with an empty configuration list returns what Parse
\* returns.  ParseWith resolves every option against the list, and in an
\* empty list nothing matches: TestParseWith_zeroCfgAndOneShortOpt.
C18_EmptyCfgsAsParse ==
    (Done /\ optCfgs = NoCfgs) => ret = Parse(args, {})

\* C18, what is left of it: the two agree on every argument list that
\* ParseWith does not refuse with UnconfiguredOption.
C18_ExceptUnconfigured ==
    (Done /\ optCfgs = NoCfgs /\ ret.err.kind # "UnconfiguredOption")
        => ret = Parse(args, {})

\* C18, the failing input reached: no configuration, one short option.
C18_FailingInput ==
    /\ Done /\ optCfgs = NoCfgs /\ args = << <<"-", "a">> >>
    /\ ret = [args |-> ZeroArgs, err |-> UnconfiguredOption(<<"a">>)]
    /\ Parse(args, {}) = [args |-> [optParams |-> CollOptParams(EmptyMap, <<"a">>, <<>>),
                                     cmdParams |-> <<>>],
                           err |-> Ok]

----------------------------------------------------------------------------
(* C19.  Setup picks the parse by the fields of the DaxSrc alone: with an  *)
(* option store it parses with the configurations made from the store and  *)
(* keeps the Cmd and those configurations in place of any stored before;   *)
(* else with stored configurations it parses with them and keeps the Cmd,  *)
(* the configurations staying as they were; else it parses without         *)
(* configurations and keeps the Cmd, no configurations and no option       *)
(* store.  A failed parse returns the error and keeps nothing.             *)

\* A step made by Setup.
SetupStep == call'.op = "Setup"

\* The successful results among the returns of a parse.
OkArgs(rs) == {r.args : r \in {q \in rs : q.err = Ok}}

\* The errors among the returns of a parse.
Failures(rs) == {r.err : r \in {q \in rs : q.err # Ok}}

\* What a Setup step has made of the DaxSrc, given the configurations the
\* parse had to use and its returns.
SetupKept(cfgsKept, rs) ==
    \/ /\ call'.err = Ok
       /\ ds'.cmd.Name = <<"a", "p", "p">>
       /\ ds'.cmd.args \in OkArgs(rs)
       /\ ds'.optCfgs = cfgsKept
       /\ ds'.options = ds.options
    \/ /\ call'.err \in Failures(rs)
       /\ ds' = ds

\* C19: Setup chooses among ParseFor, ParseWith and Parse by ds.options
\* and ds.optCfgs, and keeps the Cmd, and for ParseFor the configurations.
C19_SetupChoosesMode ==
    [][SetupStep =>
        IF ds.options # Nil
        THEN IF ds.options \in OptionStores
             THEN SetupKept(OptCfgsFor(ds.options),
                            ParseWith(Tail(osArgs), OptCfgsFor(ds.options)))
             ELSE \/ call'.err # Ok /\ ds' = ds
                  \/ call'.err = Ok /\ ds'.options = ds.options
        ELSE IF ds.optCfgs # <<>>
        THEN SetupKept(ds.optCfgs, ParseWith(Tail(osArgs), ds.optCfgs))
        ELSE /\ SetupKept(<<>>, {Parse(Tail(osArgs), {})})
             /\ ds'.options = Nil
      ]_vars

\* C19, witness: Setup with the option store "storeAB" has kept the Cmd of
\* [-b x -a] parsed with the store's configurations, and the configurations.
C19_Witness ==
    /\ call.op = "Setup" /\ call.err = Ok
    /\ osArgs = <<AppPath, <<"-", "b">>, <<"x">>, <<"-", "a">> >>
    /\ ds.options = "storeAB"
    /\ ds.optCfgs = OptCfgsFor("storeAB")
    /\ ds.cmd.Name = <<"a", "p", "p">>
    /\ ds.cmd.args.optParams = (<<"b">> :> << <<"x">> >>) @@ (<<"a">> :> <<>>)
    /\ ds.cmd.args.cmdParams = <<>>

\* C19, the other cases reached: stored configurations and no option store,
\* where "-a" is the alias of "b", takes "x" and "c" gets its default value.
C19_WithStoredCfgs ==
    /\ call.op = "Setup" /\ call.err = Ok
    /\ osArgs = <<AppPath, <<"-", "a">>, <<"x">> >>
    /\ ds.options = Nil /\ ds.optCfgs = SingleCfgs
    /\ ds.cmd.args.optParams = (<<"b">> :> << <<"x">> >>) @@ (<<"c">> :> << <<"d">> >>)
    /\ ds.cmd.args.cmdParams = <<>>

\* Neither configurations nor option store: "-a" takes nothing.
C19_WithoutCfgs ==
    /\ call.op = "Setup" /\ call.err = Ok
    /\ osArgs = <<AppPath, <<"-", "a">>, <<"x">> >>
    /\ ds.options = Nil /\ ds.optCfgs = <<>>
    /\ ds.cmd.args.optParams = (<<"a">> :> <<>>)
    /\ ds.cmd.args.cmdParams = << <<"x">> >>

\* An option store set on a DaxSrc made with configurations: the store
\* decides, the stored configurations are replaced.
C19_StoreOverCfgs ==
    /\ call.op = "Setup" /\ call.err = Ok
    /\ osArgs = <<AppPath, <<"-", "c", "=", "y">>, <<"-", "c", "=", "x">> >>
    /\ ds.options = "storeC" /\ ds.optCfgs = OptCfgsFor("storeC")
    /\ ds.cmd.args.optParams = (<<"c">> :> << <<"y">>, <<"x">> >>)

\* A failed Setup: the DaxSrc made with configurations has no Cmd.
C19_FailedSetup ==
    /\ call.op = "Setup" /\ call.err = UnconfiguredOption(<<"b">>)
    /\ ds = NewDaxSrcWithOptCfgs(FlagCfgs)

----------------------------------------------------------------------------
(* C20.  SetOptions stores on the DaxSrc: after conn.SetOptions(v) every   *)
(* DaxConn of the DaxSrc, made before or after, answers Options() with v,  *)
(* whatever Setup, Commit, Rollback, ForceBack and Close calls are made,   *)
(* until SetOptions is called again.                                       *)

\* SetOptions(v) makes v the answer of Options() on every DaxConn.
SetOptionsReachesAll ==
    call'.op = "SetOptions" =>
        \A c \in 1..conns' : ConnOptions(ds') = call'.arg

\* No other call changes the answer, for the DaxConn values there are and
\* for the one the call creates.
OthersKeepOptions ==
    call'.op # "SetOptions" =>
        \A c \in 1..conns' : ConnOptions(ds') = ConnOptions(ds)

\* Options() returns the stored value.
OptionsAnswers ==
    call'.op = "Options" => call'.val = ConnOptions(ds)

\* C20: the value given to SetOptions is what Options() returns on every
\* DaxConn of the DaxSrc until the next SetOptions.
C20_SetOptionsPersists ==
    [][SetOptionsReachesAll /\ OthersKeepOptions /\ OptionsAnswers]_vars

\* C20, witness: a DaxSrc made with configurations has run Setup, has been
\* given the value "value" by SetOptions, and the second DaxConn answers
\* Options() with it.
C20_Witness ==
    /\ call = Call("Options", 2, Nil, Ok, "value")
    /\ conns = 2
    /\ ds.optCfgs = FlagCfgs
    /\ ds.cmd.Name = <<"a", "p", "p">>
    /\ ds.options = "value"

\* C20, the other case reached: the option store given to the constructor
\* has been replaced by nil, and Commit has been called since.
C20_SetToNil ==
    /\ call = Call("Commit", 1, Nil, Ok, Nil)
    /\ ds.optCfgs = OptCfgsFor("storeC")
    /\ ds.options = Nil

----------------------------------------------------------------------------
(* C21.  The accessors would hand out copies: whatever the caller does     *)
(* with a slice OptParams or CmdParams returned, the Args stays what the   *)
(* parse returned and every later accessor call answers from that.         *)

\* What the parse returned to the caller.
Returned == Parse(args, {}).args

\* C21: the Args is never mutated after the parse returned it, and HasOpt,
\* OptParam, OptParams and CmdParams answer as they did before the caller
\* touched a returned slice.  OptParams and CmdParams return the slice the
\* Args holds: an element written through it is written in the Args.
C21_CopyOut ==
    /\ ret.args = Returned
    /\ call.op = "HasOpt" => call.val = HasOpt(Returned, call.arg)
    /\ call.op = "OptParam" => call.val = OptParam(Returned, call.arg)
    /\ call.op = "OptParams" => call.val = OptParams(Returned, call.arg)
    /\ call.op = "CmdParams" => call.val = CmdParams(Returned)

\* C21, what is left of it: an append to a returned slice, a write to an
\* element the append added and every read leave the Args as it was.
C21_OnlyOverwriteMutates ==
    [][ret' # ret =>
        /\ call'.op = "overwrite" /\ held.aliased
        /\ call'.conn <= Len(IF held.from = "opt" THEN OptParams(ret.args, held.opt)
                                                  ELSE CmdParams(ret.args))
      ]_vars

\* C21, the failing input reached: [-a=x]; s := OptParams("a"); s[0] = "z";
\* OptParam("a") answers "z".
C21_FailingInput ==
    /\ args = << <<"-", "a", "=", "x">> >>
    /\ Returned.optParams = (<<"a">> :> << <<"x">> >>)
    /\ call = Call("OptParam", 0, <<"a">>, Ok, <<"z">>)

----------------------------------------------------------------------------
(* C22.  The step of the awaiting option would come before the step of the *)
(* terminator: "--" right after a parameter-taking option written without  *)
(* =value would be that option's parameter, the option recognition would   *)
(* go on, and the tokens after it would be options or command parameters.  *)

\* One iteration with the awaiting option tested before the terminator.
StepParamFirst(st, arg, take) ==
    IF ~st.isNonOpt /\ Len(st.prev) > 0 THEN StepParam(st, arg)
    ELSE Step(st, arg, take)

\* The loop over the tokens with that order of the tests.
RECURSIVE ParamFirstFrom(_, _, _)
ParamFirstFrom(st, rest, take) ==
    IF rest = <<>> \/ st.err # Ok THEN st
    ELSE ParamFirstFrom(StepParamFirst(st, Head(rest), take), Tail(rest), take)

\* C22: Parse returns what the loop returns that tests the awaiting option
\* before the terminator.  parseArgs tests arg == "--" first: the "--"
\* after an awaiting option ends the option recognition.
C22_PendingBeforeTerminator ==
    Done => ret = ParseReturn(ParamFirstFrom(InitialScan, args, takeParams))

\* C22, the failing input reached: "a" takes a parameter, [-a -- -a=x]:
\* "a" has no value and "-a=x" is a command parameter.
C22_FailingInput ==
    /\ Done /\ takeParams = {<<"a">>}
    /\ args = << <<"-", "a">>, <<"-", "-">>, <<"-", "a", "=", "x">> >>
    /\ ret.err = Ok
    /\ ret.args.optParams = (<<"a">> :> <<>>)
    /\ ret.args.cmdParams = << <<"-", "a", "=", "x">> >>
    /\ ParamFirstFrom(InitialScan, args, takeParams).optParams
            = (<<"a">> :> << <<"-", "-">>, <<"x">> >>)

\* C22, where the order does not matter: under _false no option awaits a
\* parameter, and the two orders return the same.
C22_AgreesUnderFalse ==
    (Done /\ ZeroCfg) => ret = ParseReturn(ParamFirstFrom(InitialScan, args, takeParams))

----------------------------------------------------------------------------
(* C23.  In a cluster of short options a character that takes a parameter  *)
(* and is not the last one consumes nothing: every character is registered *)
(* as its own option, the characters before the last get no value, only    *)
(* the last one may await the next token, and a token consumed as a        *)
(* parameter goes to the awaiting option alone.                            *)

\* The iteration scans a cluster of two letters or more.
ClusterStep ==
    /\ RecognitionMode /\ ShortForm(args[idx + 1])
    /\ Len(NamePart(Remainder(args[idx + 1]))) >= 2
    /\ \A j \in 1..Len(NamePart(Remainder(args[idx + 1]))) :
            NamePart(Remainder(args[idx + 1]))[j] \in AsciiLetter

\* What the iteration makes of the cluster.
OnlyLastAwaits ==
    LET cluster == NamePart(Remainder(args[idx + 1]))
        last == LastChar(cluster)
    IN  /\ \A j \in 1..Len(cluster) : <<cluster[j]>> \in DOMAIN optParams'
        /\ \A j \in 1..(Len(cluster) - 1) :
                <<cluster[j]>> # last =>
                    optParams'[<<cluster[j]>>] = Collected(<<cluster[j]>>)
        /\ prevOptTakingParams' =
                IF last \in takeParams /\ ~HasInline(Remainder(args[idx + 1]))
                THEN last ELSE EmptyStr
        /\ cmdParams' = cmdParams

\* A token goes to no option but the awaiting one.
ParamGoesToAwaiting ==
    \A o \in DOMAIN optParams :
        (InLoop /\ ~RecognitionMode /\ o # prevOptTakingParams) =>
            optParams'[o] = optParams[o]

\* C23: a parameter-taking character that is not the last of its cluster
\* consumes nothing.
C23_NonLastNeverConsumes ==
    [][(ClusterStep => OnlyLastAwaits) /\ ParamGoesToAwaiting]_vars

\* C23, witness: "a" takes a parameter, [-ab a]: a and b are present
\* without value and the token after the cluster is a command parameter.
C23_Witness ==
    /\ Done /\ ret.err = Ok
    /\ takeParams = {<<"a">>}
    /\ args = << <<"-", "a", "b">>, <<"a">> >>
    /\ ret.args.optParams = (<<"a">> :> <<>>) @@ (<<"b">> :> <<>>)
    /\ ret.args.cmdParams = << <<"a">> >>

\* C23, the configured parse: every option takes one parameter, [-ab a]:
\* the last character gets the token, the first is reported.
C23_ReportedAsNeedsParam ==
    /\ Done /\ optCfgs = AnyParamCfgs
    /\ args = << <<"-", "a", "b">>, <<"a">> >>
    /\ optParams = (<<"a">> :> <<>>) @@ (<<"b">> :> << <<"a">> >>)
    /\ ret.err = OptionNeedsParam(<<"a">>)

----------------------------------------------------------------------------
(* C24.  The first violation wins: a failed parse has stopped at the       *)
(* leftmost token, and in a cluster at the leftmost character, that breaks *)
(* a rule; the error is that one, nothing is collected after it, and the   *)
(* tokens to its right do not matter.                                      *)

\* The tokens put in the place of those right of the failure.
Replacements == CoreLists(2) \cup {<< <<"-", "@">> >>, << <<"-", "-", "1">> >>}

\* The tokens up to the one the scan stopped at.
Scanned == SubSeq(args, 1, idx)

\* The loop state before the token the scan stopped at.
BeforeFailure == ParseArgsFrom(InitialScan, SubSeq(args, 1, idx - 1), takeParams)

\* The options a failed cluster has registered: its characters left of the
\* leftmost one that is no letter.
RegisteredByFailure ==
    IF ~ShortForm(args[idx]) THEN {}
    ELSE LET cluster == NamePart(Remainder(args[idx]))
             bad == {j \in 1..Len(cluster) : cluster[j] \notin AsciiLetter}
             first == CHOOSE j \in bad : \A k \in bad : j <= k
         IN  {<<cluster[j]>> : j \in 1..(first - 1)}

\* C24: a failed parse returns the error of the leftmost violation, has
\* collected nothing after it, and returns the same whatever tokens follow.
C24_FirstViolationWins ==
    (Done /\ ret.err # Ok) =>
        /\ idx >= 1
        /\ BeforeFailure.err = Ok
        /\ ret.err = Step(BeforeFailure, args[idx], takeParams).err
        /\ cmdParams = BeforeFailure.cmdParams
        /\ DOMAIN optParams = DOMAIN BeforeFailure.optParams \cup RegisteredByFailure
        /\ \A o \in DOMAIN optParams : optParams[o] = Collected(o)
        /\ \A o \in DOMAIN BeforeFailure.optParams :
                optParams[o] = BeforeFailure.optParams[o]
        /\ \A suffix \in Replacements : Parse(Scanned \o suffix, takeParams) = ret

\* C24, witness: [-a=x -b@ -1]: the parse stops at the second token and
\* names "@"; "b" is registered, the third token is not looked at.
C24_Witness ==
    /\ Done /\ idx = 2 /\ Len(args) = 3
    /\ args[1] = <<"-", "a", "=", "x">>
    /\ args[2] = <<"-", "b", "@">>
    /\ ret.err = InvalidOption(<<"@">>)
    /\ optParams = (<<"a">> :> << <<"x">> >>) @@ (<<"b">> :> <<>>)

\* C24, in a cluster: of the two characters of -@1 that are no letters the
\* left one is named.
C24_LeftmostCharacter ==
    /\ Done /\ idx = 1
    /\ args[1] = <<"-", "@", "1">>
    /\ ret.err = InvalidOption(<<"@">>)
    /\ optParams = EmptyMap

\* C24, the error of a collector: the configured parse that stopped at an
\* option that is not configured returns the same whatever tokens follow.
C24_CollectorErrorStops ==
    (Done /\ ret.err.kind = "UnconfiguredOption") =>
        /\ idx >= 1
        /\ ParseArgsWithFrom(InitialScan, SubSeq(args, 1, idx - 1), optCfgs).err = Ok
        /\ \A suffix \in Replacements : ParseWith(Scanned \o suffix, optCfgs) = {ret}

----------------------------------------------------------------------------
(* C25.  What is collected only grows: an iteration leaves the command     *)
(* parameters and the values of every option that is present as they      *)
(* were, with what it adds at the end; no option goes away; one token      *)
(* adds one command parameter at most.                                     *)

\* C25: every iteration extends the command parameters, by one at most,
\* and the values of every option present, and removes no option.
C25_MonotonicAccumulation ==
    [][/\ Extends(cmdParams', cmdParams)
       /\ Len(cmdParams') <= Len(cmdParams) + 1
       /\ \A o \in DOMAIN optParams :
              /\ o \in DOMAIN optParams'
              /\ Extends(optParams'[o], optParams[o])
      ]_vars

\* C25, witness: [-a=x a -a=@]: the second value of "a" is behind the
\* first, the command parameter between them stays.
C25_Witness ==
    /\ Done /\ ret.err = Ok
    /\ args = << <<"-", "a", "=", "x">>, <<"a">>, <<"-", "a", "=", "@">> >>
    /\ optParams = (<<"a">> :> << <<"x">>, <<"@">> >>)
    /\ cmdParams = << <<"a">> >>

----------------------------------------------------------------------------
(* C26.  ParseWith with no configuration at all: the first option of the   *)
(* argument list, when its token is a valid option, ends the parse with    *)
(* UnconfiguredOption naming it, and the result is empty: no option, no    *)
(* command parameter, also not those seen before it.                       *)

\* The positions of the tokens looked at as options: dashed, before the
\* terminator, and not the lone "-" that names no option.
OptionPositions ==
    {k \in 1..Len(args) :
        k < TerminatorPos(args) /\ Dashed(args[k]) /\ args[k] # <<"-">>}

\* The first of them.
FirstOptionPos == CHOOSE k \in OptionPositions : \A j \in OptionPositions : k <= j

\* C26: with an empty configuration list a valid option fails the parse
\* with UnconfiguredOption and an empty result.
C26_EmptyCfgsRefuseOptions ==
    /\ optCfgs = NoCfgs => optParams = EmptyMap
    /\ (Done /\ optCfgs = NoCfgs /\ OptionPositions # {}
          /\ OptionToken(args[FirstOptionPos])) =>
            /\ idx = FirstOptionPos
            /\ ret.err = UnconfiguredOption(NamedSeq(args[FirstOptionPos])[1])
            /\ ret.args = ZeroArgs
            /\ EmptyResult(ret.args)

\* C26, witness: no configuration, [a -ab]: UnconfiguredOption names "a",
\* and the command parameter seen before is not returned.
C26_Witness ==
    /\ Done /\ optCfgs = NoCfgs
    /\ args = << <<"a">>, <<"-", "a", "b">> >>
    /\ cmdParams = << <<"a">> >>
    /\ ret = [args |-> ZeroArgs, err |-> UnconfiguredOption(<<"a">>)]

\* C26, the long option of the test: [--ab].
C26_LongOption ==
    /\ Done /\ optCfgs = NoCfgs
    /\ args = << <<"-", "-", "a", "b">> >>
    /\ ret = [args |-> ZeroArgs, err |-> UnconfiguredOption(<<"a", "b">>)]

----------------------------------------------------------------------------
(* C27.  A Setup that fails returns the error of the parse it ran and      *)
(* leaves the Cmd and the configurations of the DaxSrc as they were; they  *)
(* are assigned by a Setup that succeeds only, whichever parse it runs.    *)

\* The errors the parse of a Setup step may return, by the fields of the
\* DaxSrc before the step.
SetupFailures ==
    IF ds.options # Nil THEN Failures(ParseFor(osArgs, ds.options))
    ELSE IF Len(ds.optCfgs) > 0 THEN Failures(ParseWith(Tail(osArgs), ds.optCfgs))
    ELSE Failures({Parse(Tail(osArgs), {})})

\* C27: a failed Setup returns the parser's error and assigns nothing.
C27_FailedSetupKeepsDaxSrc ==
    [][SetupStep =>
        /\ call'.err # Ok => (ds' = ds /\ call'.err \in SetupFailures)
        /\ (ds'.cmd # ds.cmd \/ ds'.optCfgs # ds.optCfgs) => call'.err = Ok
        /\ SetupFailures = {} => call'.err = Ok
      ]_vars

\* C27, witness: a Setup with stored configurations has succeeded on
\* [-a x]; with the option store "storeC" set since, Setup fails on "-a"
\* and the Cmd and the configurations are those of the first Setup.
C27_Witness ==
    /\ call = Call("Setup", 0, Nil, UnconfiguredOption(<<"a">>), Nil)
    /\ osArgs = <<AppPath, <<"-", "a">>, <<"x">> >>
    /\ ds.options = "storeC"
    /\ ds.optCfgs = SingleCfgs
    /\ ds.cmd.args.optParams = (<<"b">> :> << <<"x">> >>) @@ (<<"c">> :> << <<"d">> >>)

\* C27, the other parses: without configurations [x -@] fails and the
\* DaxSrc is as NewDaxSrc made it.
C27_FailedParse ==
    /\ call = Call("Setup", 0, Nil, InvalidOption(<<"@">>), Nil)
    /\ ds = NewDaxSrc

\* With stored configurations: "b" takes one parameter and gets two.
C27_FailedParseWith ==
    /\ call = Call("Setup", 0, Nil, OptionIsNotArray(<<"b">>), Nil)
    /\ ds = NewDaxSrcWithOptCfgs(SingleCfgs)

\* With an option store given to the constructor.
C27_FailedParseFor ==
    /\ call = Call("Setup", 0, Nil, UnconfiguredOption(<<"c">>), Nil)
    /\ ds = NewDaxSrcForOptions("storeAB")

----------------------------------------------------------------------------
(* C28.  The methods of the transaction change nothing: Commit returns Ok, *)
(* IsCommitted returns true, and Commit, IsCommitted, Rollback, ForceBack, *)
(* Close of a DaxConn and Close of the DaxSrc leave the Cmd, the           *)
(* configurations and the option store of the DaxSrc as they were.         *)

\* The methods of the transaction.
TxnOps == {"Commit", "IsCommitted", "Rollback", "ForceBack", "Close", "DaxSrc.Close"}

\* C28: the transaction methods leave the DaxSrc unchanged; Commit returns
\* Ok and IsCommitted true.
C28_TxnMethodsChangeNothing ==
    [][/\ call'.op \in TxnOps =>
            /\ ConnCmd(ds') = ConnCmd(ds)
            /\ ConnOptCfgs(ds') = ConnOptCfgs(ds)
            /\ ConnOptions(ds') = ConnOptions(ds)
            /\ conns' = conns
       /\ call'.op = "Commit" => call'.err = Ok
       /\ call'.op = "IsCommitted" => call'.val = "true"
      ]_vars

\* C28, witness: after the Setup of [-a x] without configurations and a
\* Rollback on the first DaxConn, the Cmd is the one Setup kept.
C28_Witness ==
    /\ call = Call("Rollback", 1, Nil, Ok, Nil)
    /\ osArgs = <<AppPath, <<"-", "a">>, <<"x">> >>
    /\ ds.options = Nil /\ ds.optCfgs = <<>>
    /\ ConnCmd(ds) = CmdOf(osArgs, [optParams |-> (<<"a">> :> <<>>),
                                     cmdParams |-> << <<"x">> >>])

\* C28, the other cases reached: IsCommitted on a DaxSrc no Setup has run
\* on and no Commit was called on.
C28_IsCommittedBeforeSetup ==
    /\ call = Call("IsCommitted", 1, Nil, Ok, "true")
    /\ conns = 1
    /\ ds = NewDaxSrcWithOptCfgs(FlagCfgs)

----------------------------------------------------------------------------
(* C29.  The DaxConn exposes the parse result read-only during a unit of   *)
(* work and gives it up at the end of the unit: once the DaxConn is        *)
(* committed and closed, Cmd() no longer holds the result.                 *)

\* A step that closes the DaxConn the step before committed.
ClosesCommitted ==
    /\ call.op = "Commit"
    /\ call'.op = "Close"
    /\ call'.conn = call.conn

\* A step made through a DaxConn.
ThroughDaxConn == call'.conn \in 1..conns /\ call'.op # "CreateDaxConn"

\* C29: no step made through a DaxConn changes what Cmd() returns, and once
\* a committed DaxConn is closed Cmd() holds no parse result any more.
C29_DiscardedAtUnitEnd ==
    [][/\ ThroughDaxConn => ConnCmd(ds') = ConnCmd(ds)
       /\ ClosesCommitted => ConnCmd(ds') = ZeroCmd
      ]_vars

\* C29, the failing input: the Setup of [-a x] without configurations, then
\* Commit and Close on the first DaxConn; Cmd() still returns the result.
C29_FailingInput ==
    /\ call = Call("Close", 1, Nil, Ok, Nil)
    /\ osArgs = <<AppPath, <<"-", "a">>, <<"x">> >>
    /\ ConnCmd(ds) # ZeroCmd
    /\ ConnCmd(ds).args.cmdParams = << <<"x">> >>

\* C29, the half that holds: no step made through a DaxConn changes what
\* Cmd() returns.
C29_ReadOnlyThroughConn ==
    [][ThroughDaxConn => ConnCmd(ds') = ConnCmd(ds)]_vars

\* C29, the half that holds, its case reached: SetOptions through the second
\* DaxConn after the Setup of [-a x], the Cmd as Setup kept it.
C29_ReadOnlyCase ==
    /\ call.op = "SetOptions" /\ call.conn = 2
    /\ osArgs = <<AppPath, <<"-", "a">>, <<"x">> >>
    /\ ConnCmd(ds) # ZeroCmd

----------------------------------------------------------------------------
(* C30.  A token that is exactly "-", before any terminator and not the    *)
(* parameter of a pending option, is dropped by Parse: no error, no option *)
(* and no command parameter comes of it.                                   *)

\* The short-option prefix with no character after it.
LoneDash == <<"-">>

\* The iteration is at a "-" the option recognition still looks at.
AtLoneDash ==
    /\ Scanning
    /\ Arg = LoneDash
    /\ ~isNonOpt
    /\ prevOptTakingParams = EmptyStr

\* The iteration goes on to the next token and leaves what was collected.
Dropped ==
    /\ pc' = "scan" /\ idx' = idx + 1
    /\ optParams' = optParams
    /\ cmdParams' = cmdParams
    /\ prevOptTakingParams' = EmptyStr
    /\ isNonOpt' = isNonOpt
    /\ ret' = ret

\* The number of parameters of the options of m.
RECURSIVE OptValueCount(_)
OptValueCount(m) ==
    IF DOMAIN m = {} THEN 0
    ELSE LET k == CHOOSE x \in DOMAIN m : TRUE
         IN  Len(m[k]) + OptValueCount([y \in DOMAIN m \ {k} |-> m[y]])

\* The number of tokens of the list that are not the terminator.
NonTerminators(tokens) == Cardinality({i \in 1..Len(tokens) : tokens[i] # Terminator})

\* C30: in a Parse with _false, the iteration of a "-" seen before any
\* terminator raises no error, registers no option and adds no command
\* parameter.
C30_LoneDashDropped == [][ZeroCfg /\ AtLoneDash => Dropped]_vars

\* C30, witness: [a - -a=x] is parsed without error; of its three tokens one
\* command parameter and one option parameter are left.
C30_Witness ==
    /\ Done /\ ZeroCfg
    /\ args = << <<"a">>, LoneDash, <<"-", "a", "=", "x">> >>
    /\ ret = [args |-> [optParams |-> (<<"a">> :> << <<"x">> >>),
                        cmdParams |-> << <<"a">> >>],
              err |-> Ok]
    /\ Len(ret.args.cmdParams) + OptValueCount(ret.args.optParams)
          < NonTerminators(args)

\* C30, the other cases reached: a "-" after the terminator is a command
\* parameter.
C30_AfterTerminator ==
    /\ Done /\ ZeroCfg
    /\ args = <<Terminator, LoneDash>>
    /\ ret = [args |-> [optParams |-> EmptyMap, cmdParams |-> <<LoneDash>>],
              err |-> Ok]

====
